---- MODULE Spec2Model ----
(***************************************************************************)
(* A model of the intrusive red-black tree of rbtree.c / rbtree.h.         *)
(*                                                                         *)
(* Nodes are identified by 1..MaxNodes; the address of node n is 2*n, so   *)
(* that the least significant bit of a pointer word is free for the colour *)
(* tag, as the alignment assertion of rbtree.h requires.  A node is the    *)
(* pair children[n] = <<w0, w1>>: w0 is the tagged word of children[0]     *)
(* (address of the left child plus the colour bit) and w1 is the right     *)
(* child pointer.  Each public operation is one action.                    *)
(***************************************************************************)
EXTENDS Integers, Sequences, FiniteSets, TLC

\* ---------------------------------------------------------------- bounds
MaxNodes == 6
MaxCachedNodes == 4
MaxBatchNodes == 4
MaxCachedBatchNodes == 3
MaxIterNodes == 4
MaxValNodes == 4
MaxValCachedNodes == 3
MaxWeakNodes == 4
MaxWeakKeys == 2
MaxGrowNodes == 9

\* nodes of the trees that are rotated
MaxRotNodes == 6

\* nodes of the tree that changes during a traversal
MaxMutNodes == 3

\* nodes of the tree whose fixup loops run step by step
MaxStepNodes == 8

\* calls of rb_insert / rb_remove made on the tree chosen at the start
MaxCalls == 1

\* ------------------------------------------------------ program constants
NULL == 0
RB_LEFT == 0
RB_RIGHT == 1
RB_RED == 0
RB_BLACK == 1
RB_COLOR_MASK == 1
RB_MAX_TREE_DEPTH == 121
RB_EFFECTIVE_DEPTH_LIMIT == 121
RB_ITER_UNINIT == -1
RB_ITER_DONE == -2

Nodes == 1..MaxNodes

\* the nodes the cached-tree and the batch scenarios draw from
CachedNodes == 1..MaxCachedNodes

BatchNodes == 1..MaxBatchNodes

CachedBatchNodes == 1..MaxCachedBatchNodes

IterNodes == 1..MaxIterNodes

\* the two iterator states of the interleaved traversals
Iters == {1, 2}

\* the nodes of the trees handed to the validator
ValNodes == 1..MaxValNodes

ValCachedNodes == 1..MaxValCachedNodes

\* the nodes and the keys of the tree under a strict weak order
WeakNodes == 1..MaxWeakNodes

WeakKeys == 1..MaxWeakKeys

\* the nodes of the tree that only grows
GrowNodes == 1..MaxGrowNodes

RotNodes == 1..MaxRotNodes

\* the nodes of the tree that changes during a traversal
MutNodes == 1..MaxMutNodes

\* the nodes of the tree whose calls run step by step
StepNodes == 1..MaxStepNodes

VARIABLES
    root,          \* tree->root
    children,      \* children[n] = <<tagged left word, right pointer>>
    key,           \* sort key of each node: the comparator's order
    inTree,        \* ghost: nodes inserted and not since removed
    fault,         \* TRUE once an operation dereferenced NULL / left its buffer
    leftmost_cache,   \* build option _RB_ENABLE_LEFTMOST_CACHE
    rightmost_cache,  \* build option _RB_ENABLE_RIGHTMOST_CACHE
    rb_leftmost,   \* rb_cached_t.rb_leftmost
    rb_rightmost,  \* rb_cached_t.rb_rightmost
    batch,         \* rb_batch_t: nodes[0 .. count - 1], count, capacity
    batch_ret,     \* return value of the last rb_batch_add
    bulk,          \* ghost: the tree is as the last commit into an empty tree built it
    iters,         \* iters[i]: the rb_foreach_t of traversal i
    outs,          \* ghost: outs[i] = what the calls of next on iters[i] returned
    validation,    \* the last validator call, if any: <<[tree, cmp_func, result]>>
    work,          \* the call under way: stack and stacksz of its fixup loop
    traversal      \* ghost: what happened to the tree during traversal i

treeVars == <<root, children, key, inTree, fault>>

cacheVars == <<leftmost_cache, rightmost_cache, rb_leftmost, rb_rightmost>>

batchVars == <<batch, batch_ret, bulk>>

iterVars == <<iters, outs>>

vars == <<root, children, key, inTree, fault, leftmost_cache, rightmost_cache,
          rb_leftmost, rb_rightmost, batch, batch_ret, bulk, iters, outs,
          validation, work, traversal>>

\* ------------------------------------------------- node & colour encoding
\* (uintptr_t) of a node pointer
Addr(n) == 2 * n

\* the node a pointer word designates once the tag bit is masked out
Ptr(w) == (w - (w % 2)) \div 2

OtherSide(side) == IF side = RB_LEFT THEN RB_RIGHT ELSE RB_LEFT

get_child(ch, n, side) ==
    IF side = RB_RIGHT THEN ch[n][2] ELSE Ptr(ch[n][1])

set_child(ch, n, side, val) ==
    IF side = RB_RIGHT
    THEN [ch EXCEPT ![n][2] = val]
    ELSE [ch EXCEPT ![n][1] = Addr(val) + (@ % 2)]

get_color(ch, n) == IF (ch[n][1] % 2) # 0 THEN RB_BLACK ELSE RB_RED

is_black(ch, n) == get_color(ch, n) = RB_BLACK

is_red(ch, n) == get_color(ch, n) = RB_RED

set_color(ch, n, color) == [ch EXCEPT ![n][1] = (@ - (@ % 2)) + color]

set_black(ch, n) == set_color(ch, n, RB_BLACK)

set_red(ch, n) == set_color(ch, n, RB_RED)

\* tree->cmp_func(a, b)
cmp_func(k, a, b) == k[a] < k[b]

get_side(ch, parent, child) ==
    IF get_child(ch, parent, RB_RIGHT) = child THEN RB_RIGHT ELSE RB_LEFT

\* ------------------------------------------------------------ path stack
\* stack[i] of the model is stack[i - 1] of the code; a write one past the
\* entries written so far extends the array
StackPut(stack, i, v) ==
    IF i <= Len(stack) THEN [stack EXCEPT ![i] = v] ELSE Append(stack, v)

RECURSIVE find_loop(_, _, _, _, _)
find_loop(ch, k, node, stack, sz) ==
    IF stack[sz] = node
    THEN [stack |-> stack, sz |-> sz, fault |-> FALSE]
    ELSE IF stack[sz] = NULL
    THEN [stack |-> stack, sz |-> sz, fault |-> TRUE]
    ELSE LET side == IF cmp_func(k, node, stack[sz]) THEN RB_LEFT ELSE RB_RIGHT
             c == get_child(ch, stack[sz], side)
         IN  IF c = NULL
             THEN [stack |-> stack, sz |-> sz, fault |-> FALSE]
             ELSE IF sz >= RB_MAX_TREE_DEPTH - 2
             THEN [stack |-> stack, sz |-> sz, fault |-> FALSE]
             ELSE find_loop(ch, k, node, StackPut(stack, sz + 1, c), sz + 1)

find_and_stack(ch, rt, k, node) == find_loop(ch, k, node, <<rt>>, 1)

RECURSIVE minmax_loop(_, _, _)
minmax_loop(ch, n, side) ==
    IF n # NULL /\ get_child(ch, n, side) # NULL
    THEN minmax_loop(ch, get_child(ch, n, side), side)
    ELSE n

\* the descent that follows the links of the other side
rb_get_minmax_OtherSide(ch, rt, side) == minmax_loop(ch, rt, OtherSide(side))

rb_get_minmax(ch, rt, side) == minmax_loop(ch, rt, side)

rb_get_min(ch, rt) == rb_get_minmax(ch, rt, RB_LEFT)

rb_get_max(ch, rt) == rb_get_minmax(ch, rt, RB_RIGHT)

\* ---------------------------------------------------------------- rotation
\* c is the working context of one insert/remove call:
\*   ch: node memory, stack: the path array, fault, rot: rotations done
\* rotate with the two subtrees of the child mixed up: the parent receives
\* the outer subtree a instead of the inner subtree b
rotate_SwappedSubtrees(c, stacksz) ==
    LET parent == c.stack[stacksz - 1]
        child == c.stack[stacksz]
        side == get_side(c.ch, parent, child)
        a == get_child(c.ch, child, side)
        b == get_child(c.ch, child, OtherSide(side))
        ch1 == IF stacksz >= 3
               THEN set_child(c.ch, c.stack[stacksz - 2],
                              get_side(c.ch, c.stack[stacksz - 2], parent), child)
               ELSE c.ch
        ch2 == set_child(ch1, child, side, b)
        ch3 == set_child(ch2, child, OtherSide(side), parent)
        ch4 == set_child(ch3, parent, side, a)
    IN  [c EXCEPT !.ch = ch4,
                  !.stack = [c.stack EXCEPT ![stacksz - 1] = child,
                                            ![stacksz] = parent],
                  !.rot = @ + 1]

rotate(c, stacksz) ==
    LET parent == c.stack[stacksz - 1]
        child == c.stack[stacksz]
        side == get_side(c.ch, parent, child)
        a == get_child(c.ch, child, side)
        b == get_child(c.ch, child, OtherSide(side))
        ch1 == IF stacksz >= 3
               THEN set_child(c.ch, c.stack[stacksz - 2],
                              get_side(c.ch, c.stack[stacksz - 2], parent), child)
               ELSE c.ch
        ch2 == set_child(ch1, child, side, a)
        ch3 == set_child(ch2, child, OtherSide(side), parent)
        ch4 == set_child(ch3, parent, side, b)
    IN  [c EXCEPT !.ch = ch4,
                  !.stack = [c.stack EXCEPT ![stacksz - 1] = child,
                                            ![stacksz] = parent],
                  !.rot = @ + 1]

\* --------------------------------------------------------------- insertion
\* the red-aunt recolouring that forgets to colour the parent black
RedAuntRecolor_ParentStaysRed(c, grandparent, parent, aunt) ==
    [c EXCEPT !.ch = set_black(set_red(c.ch, grandparent), aunt)]

\* Case 1 of fix_extra_red: the aunt is red
RedAuntRecolor(c, grandparent, parent, aunt) ==
    [c EXCEPT !.ch = set_black(set_black(set_red(c.ch, grandparent), parent), aunt)]

\* the black-aunt case without its rotations
BlackAuntRotate_NoRotation(c, stacksz, side) == c

\* the black-aunt case that rotates the grandparent back and forth: three
\* rotations at the grandparent where one is enough
BlackAuntRotate_RotatesBack(c, stacksz, side) ==
    LET node == c.stack[stacksz]
        parent == c.stack[stacksz - 1]
        parent_side == get_side(c.ch, parent, node)
        c1 == IF parent_side # side THEN rotate(c, stacksz) ELSE c
        c2 == rotate(rotate(rotate(c1, stacksz - 1), stacksz - 1), stacksz - 1)
    IN  [c2 EXCEPT !.ch = set_red(set_black(c2.ch, c2.stack[stacksz - 2]),
                                  c2.stack[stacksz - 1])]

\* Case 2 of fix_extra_red: the aunt is black
BlackAuntRotate(c, stacksz, side) ==
    LET node == c.stack[stacksz]
        parent == c.stack[stacksz - 1]
        parent_side == get_side(c.ch, parent, node)
        c1 == IF parent_side # side THEN rotate(c, stacksz) ELSE c
        c2 == rotate(c1, stacksz - 1)
    IN  [c2 EXCEPT !.ch = set_red(set_black(c2.ch, c2.stack[stacksz - 2]),
                                  c2.stack[stacksz - 1])]

RECURSIVE fix_extra_red(_, _)
fix_extra_red(c, stacksz) ==
    IF stacksz <= 1
    THEN [c EXCEPT !.ch = set_black(c.ch, c.stack[1])]
    ELSE LET parent == c.stack[stacksz - 1]
         IN  IF is_black(c.ch, parent)
             THEN c
             ELSE IF stacksz < 3
             THEN [c EXCEPT !.fault = TRUE]      \* stack[stacksz - 3] out of range
             ELSE LET grandparent == c.stack[stacksz - 2]
                      side == get_side(c.ch, grandparent, parent)
                      aunt == get_child(c.ch, grandparent, OtherSide(side))
                  IN  IF aunt # NULL /\ is_red(c.ch, aunt)
                      THEN fix_extra_red(
                               RedAuntRecolor(c, grandparent, parent, aunt),
                               stacksz - 2)
                      ELSE BlackAuntRotate(c, stacksz, side)

\* the first node linked as the root but coloured red
InsertEmpty_Red(ch, node) == set_red(ch, node)

\* rb_insert on an empty tree: the node becomes the black root
InsertEmpty(ch, node) == set_black(ch, node)

\* rb_insert that trusts the links the caller left in the node
ResetLinks_KeepStale(ch, node) == ch

\* rb_insert, first two statements: both child links of the node are cleared,
\* the colour bit is kept
ResetLinks(ch, node) ==
    set_child(set_child(ch, node, RB_LEFT, NULL), node, RB_RIGHT, NULL)

\* the result of rb_insert: new memory, new root, fault, rotations
rb_insert(ch, rt, k, node) ==
    LET ch0 == ResetLinks(ch, node)
    IN  IF rt = NULL
        THEN [ch |-> InsertEmpty(ch0, node), root |-> node, fault |-> FALSE, rot |-> 0]
        ELSE LET f == find_and_stack(ch0, rt, k, node)
                 parent == f.stack[f.sz]
                 side == IF cmp_func(k, node, parent) THEN RB_LEFT ELSE RB_RIGHT
                 ch1 == set_red(set_child(ch0, parent, side, node), node)
                 c == fix_extra_red([ch |-> ch1,
                                     stack |-> StackPut(f.stack, f.sz + 1, node),
                                     fault |-> FALSE, rot |-> 0],
                                    f.sz + 1)
             IN  [ch |-> c.ch, root |-> c.stack[1], fault |-> c.fault, rot |-> c.rot]

\* ---------------------------------------------------------------- deletion
\* fix_missing_black, red sibling: rotate the sibling above the parent and
\* push N back one level lower
RedSibling(c, stacksz, n, parent, sib) ==
    LET c1 == rotate([c EXCEPT !.stack[stacksz] = sib], stacksz)
        c2 == [c1 EXCEPT !.ch = set_black(set_red(c1.ch, parent), sib)]
    IN  [c2 EXCEPT !.stack = StackPut(c2.stack, stacksz + 1, n)]

\* the black-sibling step that forgets to colour the sibling red
BlackSiblingRecolor_NoRed(c, n, parent, n_side, sib, null_node) ==
    [c EXCEPT !.ch = IF n = null_node THEN set_child(c.ch, parent, n_side, NULL) ELSE c.ch]

\* the black-sibling step that leaves the placeholder linked under its parent
BlackSiblingRecolor_KeepsPlaceholder(c, n, parent, n_side, sib, null_node) ==
    [c EXCEPT !.ch = set_red(c.ch, sib)]

\* fix_missing_black, black sibling whose children are both black: unlink
\* the placeholder and colour the sibling red
BlackSiblingRecolor(c, n, parent, n_side, sib, null_node) ==
    LET ch1 == IF n = null_node THEN set_child(c.ch, parent, n_side, NULL) ELSE c.ch
    IN  [c EXCEPT !.ch = set_red(ch1, sib)]

\* fix_missing_black, the outer child is not red: relink the sibling under
\* its inner child (the inline first rotation)
InnerRelink(c, parent, n_side, sib, inner) ==
    LET ch1 == set_black(set_red(c.ch, sib), inner)
        inner_side == n_side
        outer_side == OtherSide(n_side)
        inner_child == get_child(ch1, inner, outer_side)
        ch2 == set_child(ch1, sib, inner_side, inner_child)
        ch3 == set_child(ch2, inner, outer_side, sib)
        ch4 == set_child(ch3, parent, OtherSide(n_side), inner)
    IN  [c EXCEPT !.ch = ch4, !.rot = @ + 1]

\* the final rotation done three times over: the sibling goes up, down and
\* up again
FinalRotate_RotatesBack(c, stacksz, n, parent, n_side, sib, outer, null_node) ==
    LET ch1 == IF n = null_node THEN set_child(c.ch, parent, n_side, NULL) ELSE c.ch
        ch2 == set_color(ch1, sib, get_color(ch1, parent))
        ch3 == set_black(set_black(ch2, parent), outer)
    IN  rotate(rotate(rotate([c EXCEPT !.ch = ch3, !.stack[stacksz] = sib], stacksz),
                      stacksz), stacksz)

\* fix_missing_black, final rotation of the sibling into the parent's place
\* with the three-way recolour
FinalRotate(c, stacksz, n, parent, n_side, sib, outer, null_node) ==
    LET ch1 == IF n = null_node THEN set_child(c.ch, parent, n_side, NULL) ELSE c.ch
        ch2 == set_color(ch1, sib, get_color(ch1, parent))
        ch3 == set_black(set_black(ch2, parent), outer)
    IN  rotate([c EXCEPT !.ch = ch3, !.stack[stacksz] = sib], stacksz)

\* the call stops at a NULL dereference
Faulted(c) == [c EXCEPT !.fault = TRUE]

RECURSIVE fix_missing_black(_, _, _)

\* fix_missing_black, after BlackSiblingRecolor: a black parent passes the
\* deficit one level up, a red parent is coloured black and ends the fixup
AfterRecolor(c, stacksz, parent, null_node) ==
    IF is_black(c.ch, parent)
    THEN fix_missing_black(c, stacksz - 1, null_node)
    ELSE [c EXCEPT !.ch = set_black(c.ch, parent)]

\* fix_missing_black, the final rotation once the outer child is known
FinalStep(c, stacksz, n, parent, n_side, sib, outer, null_node) ==
    IF outer = NULL
    THEN Faulted(c)                              \* set_black(NULL)
    ELSE FinalRotate(c, stacksz, n, parent, n_side, sib, outer, null_node)

\* fix_missing_black, after the inner relink: the inner child is the sibling
AfterRelink(c, stacksz, n, parent, n_side, inner, null_node) ==
    FinalStep(c, stacksz, n, parent, n_side, inner,
              get_child(c.ch, inner, OtherSide(n_side)), null_node)

\* fix_missing_black, the sibling has a red child: make the outer child red
RedChildCase(c, stacksz, n, parent, n_side, sib, outer, inner, null_node) ==
    IF ~(outer # NULL /\ is_red(c.ch, outer))
    THEN IF inner = NULL
         THEN Faulted(c)                         \* set_black(NULL)
         ELSE AfterRelink(InnerRelink(c, parent, n_side, sib, inner),
                          stacksz, n, parent, n_side, inner, null_node)
    ELSE FinalStep(c, stacksz, n, parent, n_side, sib, outer, null_node)

\* fix_missing_black, from the cached children c0, c1 of the black sibling
SiblingChildren(c, stacksz, n, parent, n_side, sib, c0, c1, null_node) ==
    IF (c0 = NULL \/ is_black(c.ch, c0)) /\ (c1 = NULL \/ is_black(c.ch, c1))
    THEN AfterRecolor(BlackSiblingRecolor(c, n, parent, n_side, sib, null_node),
                      stacksz, parent, null_node)
    ELSE RedChildCase(c, stacksz, n, parent, n_side, sib,
                      IF n_side = RB_LEFT THEN c1 ELSE c0,
                      IF n_side = RB_LEFT THEN c0 ELSE c1, null_node)

\* fix_missing_black, with a sibling that has been made black
BlackSibling(c, stacksz, n, parent, n_side, sib, null_node) ==
    IF sib = NULL
    THEN Faulted(c)                              \* get_child(NULL, ...)
    ELSE SiblingChildren(c, stacksz, n, parent, n_side, sib,
                         get_child(c.ch, sib, RB_LEFT),
                         get_child(c.ch, sib, RB_RIGHT), null_node)

\* fix_missing_black, after the red-sibling rotation: parent and sibling are
\* read again from the longer stack
AfterRedSibling(c, stacksz, n, n_side, null_node) ==
    BlackSibling(c, stacksz, n, c.stack[stacksz - 1], n_side,
                 get_child(c.ch, c.stack[stacksz - 1], OtherSide(n_side)),
                 null_node)

\* fix_missing_black, one iteration from the sibling of the deficit node
SiblingStep(c, stacksz, n, parent, n_side, sib, null_node) ==
    IF sib = NULL
    THEN Faulted(c)                              \* is_black(NULL)
    ELSE IF ~is_black(c.ch, sib)
    THEN AfterRedSibling(RedSibling(c, stacksz, n, parent, sib),
                         stacksz + 1, n, n_side, null_node)
    ELSE BlackSibling(c, stacksz, n, parent, n_side, sib, null_node)

\* fix_missing_black, one iteration from the side of the deficit node
SideStep(c, stacksz, n, parent, n_side, null_node) ==
    SiblingStep(c, stacksz, n, parent, n_side,
                get_child(c.ch, parent, OtherSide(n_side)), null_node)

fix_missing_black(c, stacksz, null_node) ==
    IF stacksz <= 1
    THEN c
    ELSE SideStep(c, stacksz, c.stack[stacksz], c.stack[stacksz - 1],
                  get_side(c.ch, c.stack[stacksz - 1], c.stack[stacksz]),
                  null_node)

\* rb_remove, walk to the in-order predecessor: rightmost of the left subtree
RECURSIVE pred_loop(_, _, _, _)
pred_loop(ch, stack, sz, node2) ==
    IF get_child(ch, node2, RB_RIGHT) # NULL /\ sz < RB_MAX_TREE_DEPTH
    THEN pred_loop(ch, StackPut(stack, sz + 1, get_child(ch, node2, RB_RIGHT)),
                   sz + 1, get_child(ch, node2, RB_RIGHT))
    ELSE [stack |-> stack, sz |-> sz, node2 |-> node2]

\* rb_remove, case 1: push the left child, then walk right.  t is
\* [ch, root, stack, sz]
PredPath(t, first) ==
    IF t.sz < RB_MAX_TREE_DEPTH
    THEN pred_loop(t.ch, StackPut(t.stack, t.sz + 1, first), t.sz + 1, first)
    ELSE pred_loop(t.ch, t.stack, t.sz, first)

\* the upper link of the swap: hiparent (or the root) now designates node2
SwapHigh(ch, hiparent, node, node2) ==
    IF hiparent # NULL
    THEN set_child(ch, hiparent, get_side(ch, hiparent, node), node2)
    ELSE ch

\* the lower links when node2 is not a direct child of node
SwapLowFar(ch, node, node2) ==
    set_child(set_child(ch, node, RB_LEFT, get_child(ch, node2, RB_LEFT)),
              node2, RB_LEFT, get_child(ch, node, RB_LEFT))

\* the lower links of the swap
SwapLow(ch, loparent, node, node2) ==
    IF loparent = node
    THEN set_child(set_child(ch, node, RB_LEFT, get_child(ch, node2, RB_LEFT)),
                   node2, RB_LEFT, node)
    ELSE SwapLowFar(set_child(ch, loparent, get_side(ch, loparent, node2), node),
                    node, node2)

\* the right child of node goes to node2
SwapRight(ch, node, node2) ==
    set_child(set_child(ch, node2, RB_RIGHT, get_child(ch, node, RB_RIGHT)),
              node, RB_RIGHT, NULL)

SwapColors(ch, node, node2) ==
    set_color(set_color(ch, node, get_color(ch, node2)), node2, get_color(ch, node))

SwapStack(stack, i, j) == [stack EXCEPT ![i] = stack[j], ![j] = stack[i]]

\* the swap, given hiparent and the path p to the predecessor node2
SwapWithPredecessor(t, node, hiparent, p) ==
    [ch |-> SwapColors(SwapRight(SwapLow(SwapHigh(t.ch, hiparent, node, p.node2),
                                         p.stack[p.sz - 1], node, p.node2),
                                 node, p.node2),
                       node, p.node2),
     root |-> IF hiparent # NULL THEN t.root ELSE p.node2,
     stack |-> SwapStack(p.stack, t.sz, p.sz),
     sz |-> p.sz]

\* rb_remove, case 1: swap node with its in-order predecessor
PredecessorSwap(t, node) ==
    SwapWithPredecessor(t, node,
                        IF t.sz > 1 THEN t.stack[t.sz - 1] ELSE NULL,
                        PredPath(t, get_child(t.ch, node, RB_LEFT)))

\* what rb_remove leaves: memory, tree->root = stack[0], fault, rotations
RemoveResult(c) ==
    [ch |-> c.ch, root |-> c.stack[1], fault |-> c.fault, rot |-> c.rot]

\* rb_remove that splices the only child in without recolouring it
SpliceChild_NoRecolor(ch, parent, node, child) ==
    set_child(ch, parent, get_side(ch, parent, node), child)

\* rb_remove, the node has one child: the child takes its place
SpliceChild(ch, parent, node, child) ==
    IF is_red(ch, node) \/ is_red(ch, child)
    THEN set_black(set_child(ch, parent, get_side(ch, parent, node), child), child)
    ELSE set_child(ch, parent, get_side(ch, parent, node), child)

\* rb_remove, case 2 below the root.  c is the working context
SpliceBelowRoot(c, sz, node, child, parent) ==
    IF child = NULL
    THEN IF is_black(c.ch, node)
         THEN fix_missing_black(c, sz, node)
         ELSE [c EXCEPT !.ch = set_child(c.ch, parent,
                                         get_side(c.ch, parent, node), NULL)]
    ELSE [c EXCEPT !.ch = SpliceChild(c.ch, parent, node, child)]

\* rb_remove, case 2 once the only child (or NULL) is known
SpliceWith(t, node, child) ==
    IF t.sz < 2
    THEN [ch |-> IF child # NULL THEN set_black(t.ch, child) ELSE t.ch,
          root |-> child, fault |-> FALSE, rot |-> 0]
    ELSE RemoveResult(
             SpliceBelowRoot([ch |-> t.ch, stack |-> t.stack, fault |-> FALSE, rot |-> 0],
                             t.sz, node, child, t.stack[t.sz - 1]))

\* rb_remove, case 2: the node has at most one child.  t is [ch, root, stack, sz]
RemoveSplice(t, node) ==
    SpliceWith(t, node,
               IF get_child(t.ch, node, RB_LEFT) # NULL
               THEN get_child(t.ch, node, RB_LEFT)
               ELSE get_child(t.ch, node, RB_RIGHT))

\* the result of rb_remove with its found flag
Found(r, found) ==
    [ch |-> r.ch, root |-> r.root, fault |-> r.fault, rot |-> r.rot, found |-> found]

\* rb_remove without the early return for a node that was not found
RemoveFound_NoEarlyReturn(ch, rt, f, node) ==
    Found(RemoveSplice([ch |-> ch, root |-> rt, stack |-> f.stack, sz |-> f.sz], node),
          node = f.stack[f.sz])

\* rb_remove, after find_and_stack returned f: return when the node was not
\* found, else swap with the predecessor if needed and splice out
RemoveFound(ch, rt, f, node) ==
    IF node # f.stack[f.sz]
    THEN [ch |-> ch, root |-> rt, fault |-> FALSE, rot |-> 0, found |-> FALSE]
    ELSE IF get_child(ch, node, RB_LEFT) # NULL /\ get_child(ch, node, RB_RIGHT) # NULL
    THEN Found(RemoveSplice(
                   PredecessorSwap([ch |-> ch, root |-> rt, stack |-> f.stack, sz |-> f.sz],
                                   node),
                   node),
               TRUE)
    ELSE Found(RemoveSplice([ch |-> ch, root |-> rt, stack |-> f.stack, sz |-> f.sz], node),
               TRUE)

\* rb_remove from the result f of find_and_stack.  On an empty tree
\* find_and_stack hands the NULL root to the comparator and reads its child:
\* the call faults
RemoveAfterFind(ch, rt, f, node) ==
    IF f.fault
    THEN [ch |-> ch, root |-> rt, fault |-> TRUE, rot |-> 0, found |-> FALSE]
    ELSE RemoveFound(ch, rt, f, node)

rb_remove(ch, rt, k, node) ==
    RemoveAfterFind(ch, rt, find_and_stack(ch, rt, k, node), node)

\* ------------------------------------------------------------- membership
RECURSIVE contains_loop(_, _, _, _)
contains_loop(ch, k, node, n) ==
    IF n # NULL /\ n # node
    THEN contains_loop(ch, k, node,
             get_child(ch, n, IF cmp_func(k, node, n) THEN RB_LEFT ELSE RB_RIGHT))
    ELSE n = node

\* the search with the comparator's arguments exchanged
RECURSIVE contains_loop_swapped(_, _, _, _)
contains_loop_swapped(ch, k, node, n) ==
    IF n # NULL /\ n # node
    THEN contains_loop_swapped(ch, k, node,
             get_child(ch, n, IF cmp_func(k, n, node) THEN RB_LEFT ELSE RB_RIGHT))
    ELSE n = node

rb_contains_SwappedCmp(ch, rt, k, node) == contains_loop_swapped(ch, k, node, rt)

rb_contains(ch, rt, k, node) == contains_loop(ch, k, node, rt)

\* ---------------------------------------------------- in-order iteration
\* f is the rb_foreach_t: buffer[i + 1] is the stack word at index i, the
\* address of the node with the went-left flag in its low bit
FOREACH_SET_DIRECTION(f, idx, went_left) ==
    [f EXCEPT !.buffer[idx + 1] = (@ - (@ % 2)) + (IF went_left THEN 1 ELSE 0)]

FOREACH_GET_DIRECTION(f, idx) == (f.buffer[idx + 1] % 2) # 0

FOREACH_GET_NODE(f, idx) == Ptr(f.buffer[idx + 1])

\* the descent loops of __rb_foreach_next: push n and its chain of left
\* children, each flagged as reached by going left
RECURSIVE push_left(_, _, _)
push_left(ch, f, n) ==
    IF n = NULL
    THEN [f |-> f, abort |-> FALSE]
    ELSE IF f.top >= RB_EFFECTIVE_DEPTH_LIMIT - 2
    THEN [f |-> [f EXCEPT !.top = RB_ITER_DONE], abort |-> TRUE]
    ELSE LET f1 == [f EXCEPT !.buffer = StackPut(f.buffer, f.top + 1, Addr(n))]
             f2 == FOREACH_SET_DIRECTION(f1, f.top, TRUE)
         IN  push_left(ch, [f2 EXCEPT !.top = @ + 1], get_child(ch, n, RB_LEFT))

\* the visit that pushes the right child without descending to its leftmost
\* node
VisitFrame_NoDescent(ch, f, n) ==
    LET f1 == FOREACH_SET_DIRECTION(f, f.top, FALSE)
        f2 == [f1 EXCEPT !.top = @ + 1]
        r == get_child(ch, n, RB_RIGHT)
        f3 == IF r = NULL
              THEN f2
              ELSE [FOREACH_SET_DIRECTION(
                        [f2 EXCEPT !.buffer = StackPut(f2.buffer, f2.top + 1, Addr(r))],
                        f2.top, TRUE)
                    EXCEPT !.top = @ + 1]
    IN  [f |-> f3, ret |-> n]

\* the visit that leaves the frame flagged as reached by a left descent
VisitFrame_KeepsDirection(ch, f, n) ==
    LET f2 == [f EXCEPT !.top = @ + 1]
        p == push_left(ch, f2, get_child(ch, n, RB_RIGHT))
    IN  IF p.abort THEN [f |-> p.f, ret |-> NULL] ELSE [f |-> p.f, ret |-> n]

\* what the main loop does with a frame that was reached by a left descent
VisitFrame(ch, f, n) ==
    LET f1 == FOREACH_SET_DIRECTION(f, f.top, FALSE)
        f2 == [f1 EXCEPT !.top = @ + 1]
        p == push_left(ch, f2, get_child(ch, n, RB_RIGHT))
    IN  IF p.abort THEN [f |-> p.f, ret |-> NULL] ELSE [f |-> p.f, ret |-> n]

RECURSIVE foreach_main(_, _)
foreach_main(ch, f) ==
    IF f.top > 0
    THEN LET f1 == [f EXCEPT !.top = @ - 1]
             n == FOREACH_GET_NODE(f1, f1.top)
         IN  IF FOREACH_GET_DIRECTION(f1, f1.top)
             THEN VisitFrame(ch, f1, n)
             ELSE foreach_main(ch, f1)
    ELSE [f |-> [f EXCEPT !.top = RB_ITER_DONE], ret |-> NULL]

\* the step that starts over from the root when the traversal is complete
rb_foreach_next_Restart(ch, rt, f) ==
    IF rt = NULL
    THEN [f |-> f, ret |-> NULL]
    ELSE IF f.top = RB_ITER_UNINIT \/ f.top = RB_ITER_DONE
    THEN LET p == push_left(ch, [f EXCEPT !.top = 0], rt)
         IN  IF p.abort THEN [f |-> p.f, ret |-> NULL] ELSE foreach_main(ch, p.f)
    ELSE foreach_main(ch, f)

\* __rb_foreach_next: the new iterator state and the node returned
rb_foreach_next(ch, rt, f) ==
    IF rt = NULL
    THEN [f |-> f, ret |-> NULL]
    ELSE IF f.top = RB_ITER_DONE
    THEN [f |-> f, ret |-> NULL]
    ELSE IF f.top = RB_ITER_UNINIT
    THEN LET p == push_left(ch, [f EXCEPT !.top = 0], rt)
         IN  IF p.abort THEN [f |-> p.f, ret |-> NULL] ELSE foreach_main(ch, p.f)
    ELSE foreach_main(ch, f)

\* _RB_FOREACH_INIT: a fresh buffer and top = RB_ITER_UNINIT
FOREACH_INIT == [buffer |-> <<>>, top |-> RB_ITER_UNINIT]

\* RB_FOREACH: call next until it returns NULL, collecting the nodes
RECURSIVE foreach_collect(_, _, _, _, _)
foreach_collect(ch, rt, f, acc, fuel) ==
    LET r == rb_foreach_next(ch, rt, f)
    IN  IF r.ret = NULL \/ fuel = 0
        THEN acc
        ELSE foreach_collect(ch, rt, r.f, Append(acc, r.ret), fuel - 1)

RB_FOREACH(ch, rt) == foreach_collect(ch, rt, FOREACH_INIT, <<>>, 2 * MaxNodes + 2)

\* ----------------------------------------------------------- cached tree
\* update_cache_insert; lm, rm are the cached pointers, lc, rc the build
\* options.  The result is the pair of new cached pointers
\* update_cache_insert that caches every inserted node
update_cache_insert_Always(k, lc, rc, lm, rm, node) ==
    [lm |-> IF lc THEN node ELSE lm, rm |-> IF rc THEN node ELSE rm]

\* update_cache_insert that never fills an empty cache
update_cache_insert_SkipEmpty(k, lc, rc, lm, rm, node) ==
    [lm |-> IF lc /\ lm # NULL /\ cmp_func(k, node, lm) THEN node ELSE lm,
     rm |-> IF rc /\ rm # NULL /\ cmp_func(k, rm, node) THEN node ELSE rm]

update_cache_insert(k, lc, rc, lm, rm, node) ==
    [lm |-> IF lc /\ (lm = NULL \/ cmp_func(k, node, lm)) THEN node ELSE lm,
     rm |-> IF rc /\ (rm = NULL \/ cmp_func(k, rm, node)) THEN node ELSE rm]

\* update_cache_remove that leaves a cached pointer at the removed node
update_cache_remove_Stale(ch, rt, lc, rc, lm, rm, node) ==
    [lm |-> lm, rm |-> rm]

\* update_cache_remove, called after rb_remove produced memory ch and root rt
update_cache_remove(ch, rt, lc, rc, lm, rm, node) ==
    [lm |-> IF lc /\ lm = node THEN rb_get_minmax(ch, rt, RB_LEFT) ELSE lm,
     rm |-> IF rc /\ rm = node THEN rb_get_minmax(ch, rt, RB_RIGHT) ELSE rm]

rb_cached_get_min(ch, rt, lc, lm) ==
    IF lc THEN lm ELSE rb_get_minmax(ch, rt, RB_LEFT)

rb_cached_get_max(ch, rt, rc, rm) ==
    IF rc THEN rm ELSE rb_get_minmax(ch, rt, RB_RIGHT)

\* the words build_path_to_leftmost writes: the nodes from current down the
\* left links, up to and including the cached leftmost node
RECURSIVE leftmost_path(_, _, _, _)
leftmost_path(ch, lm, current, stack) ==
    IF current # NULL /\ current # lm
    THEN IF Len(stack) >= RB_EFFECTIVE_DEPTH_LIMIT - 2
         THEN [stack |-> stack, depth |-> 0]
         ELSE leftmost_path(ch, lm, get_child(ch, current, RB_LEFT),
                            Append(stack, Addr(current)))
    ELSE IF current = lm
    THEN [stack |-> Append(stack, Addr(lm)), depth |-> Len(stack) + 1]
    ELSE [stack |-> stack, depth |-> Len(stack)]

\* the path that stops above the cached leftmost node
build_path_to_leftmost_Short(ch, rt, lc, lm, buffer) ==
    IF ~lc \/ lm = NULL \/ rt = lm
    THEN [stack |-> buffer, depth |-> 0]
    ELSE [stack |-> leftmost_path(ch, lm, rt, <<>>).stack,
          depth |-> leftmost_path(ch, lm, rt, <<>>).depth - 1]

\* build_path_to_leftmost: the buffer and the depth returned.  The words
\* written replace the first words of the buffer
build_path_to_leftmost(ch, rt, lc, lm, buffer) ==
    IF ~lc \/ lm = NULL
    THEN [stack |-> buffer, depth |-> 0]
    ELSE [stack |-> leftmost_path(ch, lm, rt, <<>>).stack
                      \o SubSeq(buffer, Len(leftmost_path(ch, lm, rt, <<>>).stack) + 1,
                                Len(buffer)),
          depth |-> leftmost_path(ch, lm, rt, <<>>).depth]

\* the went-left flag set in the words 0 .. depth - 1 of the buffer
RECURSIVE set_directions(_, _, _)
set_directions(f, i, depth) ==
    IF i < depth
    THEN set_directions(FOREACH_SET_DIRECTION(f, i, TRUE), i + 1, depth)
    ELSE f

\* __rb_cached_foreach_next, the optimised initialisation from the path p
cached_foreach_init(ch, rt, f, p) ==
    IF p.depth > 0
    THEN rb_foreach_next(ch, rt,
             [set_directions([f EXCEPT !.buffer = p.stack], 0, p.depth)
                 EXCEPT !.top = p.depth])
    ELSE rb_foreach_next(ch, rt, [f EXCEPT !.buffer = p.stack])

\* __rb_cached_foreach_next
rb_cached_foreach_next(ch, rt, lc, lm, f) ==
    IF rt = NULL
    THEN [f |-> f, ret |-> NULL]
    ELSE IF f.top = RB_ITER_DONE
    THEN [f |-> f, ret |-> NULL]
    ELSE IF lc /\ f.top = RB_ITER_UNINIT /\ lm # NULL
    THEN cached_foreach_init(ch, rt, f, build_path_to_leftmost(ch, rt, lc, lm, f.buffer))
    ELSE rb_foreach_next(ch, rt, f)

\* RB_CACHED_FOREACH: call next until it returns NULL, collecting the nodes
RECURSIVE cached_foreach_collect(_, _, _, _, _, _, _)
cached_foreach_collect(ch, rt, lc, lm, f, acc, fuel) ==
    IF rb_cached_foreach_next(ch, rt, lc, lm, f).ret = NULL \/ fuel = 0
    THEN acc
    ELSE cached_foreach_collect(ch, rt, lc, lm,
                                rb_cached_foreach_next(ch, rt, lc, lm, f).f,
                                Append(acc, rb_cached_foreach_next(ch, rt, lc, lm, f).ret),
                                fuel - 1)

RB_CACHED_FOREACH(ch, rt, lc, lm) ==
    cached_foreach_collect(ch, rt, lc, lm, FOREACH_INIT, <<>>, 2 * MaxNodes + 2)

\* the early exit that also rejects the cached extrema themselves
rb_cached_contains_RejectExtrema(ch, rt, k, lc, rc, lm, rm, node) ==
    IF lc /\ lm # NULL /\ ~cmp_func(k, lm, node)
    THEN FALSE
    ELSE IF rc /\ rm # NULL /\ ~cmp_func(k, node, rm)
    THEN FALSE
    ELSE rb_contains(ch, rt, k, node)

\* rb_cached_contains: reject a node below the cached minimum or above the
\* cached maximum, else search
rb_cached_contains(ch, rt, k, lc, rc, lm, rm, node) ==
    IF lc /\ lm # NULL /\ cmp_func(k, node, lm)
    THEN FALSE
    ELSE IF rc /\ rm # NULL /\ cmp_func(k, rm, node)
    THEN FALSE
    ELSE rb_contains(ch, rt, k, node)

\* ------------------------------------------------------ comparator calls
\* the argument pairs <<a, b>> of the cmp_func calls of find_and_stack, from
\* the path entry stack[sz] on
RECURSIVE find_cmp_calls(_, _, _, _, _)
find_cmp_calls(ch, k, node, stack, sz) ==
    IF stack[sz] = node \/ stack[sz] = NULL
    THEN {}
    ELSE IF get_child(ch, stack[sz],
                      IF cmp_func(k, node, stack[sz]) THEN RB_LEFT ELSE RB_RIGHT) = NULL
            \/ sz >= RB_MAX_TREE_DEPTH - 2
    THEN {<<node, stack[sz]>>}
    ELSE {<<node, stack[sz]>>}
         \cup find_cmp_calls(ch, k, node,
                  StackPut(stack, sz + 1,
                           get_child(ch, stack[sz],
                                     IF cmp_func(k, node, stack[sz])
                                     THEN RB_LEFT ELSE RB_RIGHT)),
                  sz + 1)

\* the cmp_func calls of rb_insert: those of find_and_stack and the choice of
\* the side under the parent
insert_cmp_calls(ch, rt, k, node) ==
    IF rt = NULL
    THEN {}
    ELSE find_cmp_calls(ResetLinks(ch, node), k, node, <<rt>>, 1)
         \cup {<<node, find_and_stack(ResetLinks(ch, node), rt, k, node).stack[
                           find_and_stack(ResetLinks(ch, node), rt, k, node).sz]>>}

\* the cmp_func calls of update_cache_insert
update_cache_insert_cmp_calls(lc, rc, lm, rm, node) ==
    (IF lc /\ lm # NULL THEN {<<node, lm>>} ELSE {})
    \cup (IF rc /\ rm # NULL THEN {<<rm, node>>} ELSE {})

\* the cmp_func calls of rb_cached_insert
cached_insert_cmp_calls(ch, rt, k, lc, rc, lm, rm, node) ==
    insert_cmp_calls(ch, rt, k, node)
    \cup update_cache_insert_cmp_calls(lc, rc, lm, rm, node)

\* ---------------------------------------------------------- batch loader
\* rb_batch_qsort_cmp
rb_batch_qsort_cmp(k, a, b) == IF cmp_func(k, a, b) THEN -1 ELSE 1

\* qsort of the buffer under rb_batch_qsort_cmp: insertion of each element
\* before the first element it sorts below
RECURSIVE sorted_insert(_, _, _)
sorted_insert(k, sorted, x) ==
    IF sorted = <<>> THEN <<x>>
    ELSE IF rb_batch_qsort_cmp(k, x, Head(sorted)) < 0
    THEN <<x>> \o sorted
    ELSE <<Head(sorted)>> \o sorted_insert(k, Tail(sorted), x)

\* the buffer left in the order of the rb_batch_add calls
qsort_Unsorted(k, nodes) == nodes

RECURSIVE qsort(_, _)
qsort(k, nodes) ==
    IF nodes = <<>> THEN <<>>
    ELSE sorted_insert(k, qsort(k, SubSeq(nodes, 1, Len(nodes) - 1)), nodes[Len(nodes)])

\* the builder that takes the first node of each range as its root
RECURSIVE rb_batch_build_balanced_FirstAsRoot(_, _, _, _)
rb_batch_build_balanced_FirstAsRoot(ch, nodes, start, end) ==
    IF start > end
    THEN [ch |-> ch, node |-> NULL]
    ELSE LET r == rb_batch_build_balanced_FirstAsRoot(ch, nodes, start + 1, end)
         IN  [ch |-> [r.ch EXCEPT ![nodes[start + 1]] = <<RB_COLOR_MASK, r.node>>],
              node |-> nodes[start + 1]]

\* rb_batch_build_balanced over nodes[start .. end] (indices of the code);
\* the result is the memory and the root of the subtree built
RECURSIVE rb_batch_build_balanced(_, _, _, _)
rb_batch_build_balanced(ch, nodes, start, end) ==
    IF start > end
    THEN [ch |-> ch, node |-> NULL]
    ELSE LET mid == start + ((end - start) \div 2)
             node == nodes[mid + 1]
             l == IF start < mid
                  THEN rb_batch_build_balanced(ch, nodes, start, mid - 1)
                  ELSE [ch |-> ch, node |-> NULL]
             r == IF mid < end
                  THEN rb_batch_build_balanced(l.ch, nodes, mid + 1, end)
                  ELSE [ch |-> l.ch, node |-> NULL]
         IN  [ch |-> [r.ch EXCEPT ![node] = <<Addr(l.node) + RB_COLOR_MASK, r.node>>],
              node |-> node]

RECURSIVE rb_batch_color_all_black(_, _)
rb_batch_color_all_black(ch, node) ==
    IF node = NULL
    THEN ch
    ELSE LET left == Ptr(ch[node][1])
             right == ch[node][2]
             ch1 == [ch EXCEPT ![node][1] = Addr(left) + RB_COLOR_MASK]
         IN  rb_batch_color_all_black(rb_batch_color_all_black(ch1, left), right)

\* rb_batch_add that stores the node before it learns that realloc failed
rb_batch_add_FailAppends(b, node, grow) ==
    IF b.count >= b.capacity /\ ~grow
    THEN [batch |-> [b EXCEPT !.nodes = Append(@, node), !.count = @ + 1], ret |-> -1]
    ELSE [batch |-> [nodes |-> Append(b.nodes, node),
                     count |-> b.count + 1,
                     capacity |-> IF b.count >= b.capacity THEN b.capacity * 2
                                  ELSE b.capacity],
          ret |-> 0]

\* rb_batch_add: b is the batch, grow says whether realloc succeeds
rb_batch_add(b, node, grow) ==
    IF b.count >= b.capacity /\ ~grow
    THEN [batch |-> b, ret |-> -1]
    ELSE [batch |-> [nodes |-> Append(b.nodes, node),
                     count |-> b.count + 1,
                     capacity |-> IF b.count >= b.capacity THEN b.capacity * 2
                                  ELSE b.capacity],
          ret |-> 0]

\* rb_batch_commit into a non-empty tree: rb_insert of nodes[i], i = 0 ..
RECURSIVE insert_each(_, _, _, _, _)
insert_each(ch, rt, k, nodes, i) ==
    IF i > Len(nodes)
    THEN [ch |-> ch, root |-> rt, fault |-> FALSE]
    ELSE LET r == rb_insert(ch, rt, k, nodes[i])
         IN  IF r.fault
             THEN [ch |-> r.ch, root |-> r.root, fault |-> TRUE]
             ELSE insert_each(r.ch, r.root, k, nodes, i + 1)

\* the commit that sorts the buffer before the one-by-one insertion too
rb_batch_commit_SortedInserts(ch, rt, k, b) ==
    IF rt = NULL
    THEN LET sorted == qsort(k, b.nodes)
             t == rb_batch_build_balanced(ch, sorted, 0, b.count - 1)
         IN  [ch |-> rb_batch_color_all_black(t.ch, t.node), root |-> t.node,
              fault |-> FALSE]
    ELSE insert_each(ch, rt, k, qsort(k, b.nodes), 1)

\* rb_batch_commit with count > 0: the new memory and root
rb_batch_commit(ch, rt, k, b) ==
    IF rt = NULL
    THEN LET sorted == qsort(k, b.nodes)
             t == rb_batch_build_balanced(ch, sorted, 0, b.count - 1)
         IN  [ch |-> rb_batch_color_all_black(t.ch, t.node), root |-> t.node,
              fault |-> FALSE]
    ELSE insert_each(ch, rt, k, b.nodes, 1)

\* rb_cached_batch_commit with count > 0: rb_batch_commit, then a cached
\* pointer that is still NULL is set from the committed tree
\* t is what rb_batch_commit left
update_cache_commit(t, lc, rc, lm, rm) ==
    [t |-> t,
     lm |-> IF lc /\ lm = NULL /\ t.root # NULL
            THEN rb_get_minmax(t.ch, t.root, RB_LEFT)
            ELSE lm,
     rm |-> IF rc /\ rm = NULL /\ t.root # NULL
            THEN rb_get_minmax(t.ch, t.root, RB_RIGHT)
            ELSE rm]

rb_cached_batch_commit(ch, rt, k, b, lc, rc, lm, rm) ==
    update_cache_commit(rb_batch_commit(ch, rt, k, b), lc, rc, lm, rm)

\* ---------------------------------------------------------------- validator
\* a NULL error_msg
NoMessage == ""

\* the initializer of result in rb_validate_tree
NewResult ==
    [valid |-> TRUE, node_count |-> 0, black_height |-> 0,
     node_colors |-> TRUE, null_nodes_black |-> TRUE, red_children_black |-> TRUE,
     black_height_consistent |-> TRUE, single_child_red |-> TRUE,
     root_is_black |-> TRUE, bst_property |-> TRUE, cache_consistency |-> TRUE,
     error_msg |-> NoMessage, error_node |-> NULL, violation_property |-> 0]

set_validation_error(result, msg, node, property) ==
    IF result.valid
    THEN [result EXCEPT !.valid = FALSE, !.error_msg = msg, !.error_node = node,
                        !.violation_property = property]
    ELSE result

\* a failed check of validate_node_recursive: the flag of the property is
\* cleared, the first error is recorded, -1 is returned.
\* ctx is [result, min_node, max_node, null_nodes_encountered]
ValidationFailure(ctx, flag, msg, node, property) ==
    [ctx |-> [ctx EXCEPT !.result =
                 set_validation_error([@ EXCEPT ![flag] = FALSE], msg, node, property)],
     ret |-> -1]

\* validate_node_recursive, the count and the min/max tracking
CountNode(k, ctx, node) ==
    [ctx EXCEPT !.result.node_count = @ + 1,
                !.min_node = IF @ = NULL \/ cmp_func(k, node, @) THEN node ELSE @,
                !.max_node = IF @ = NULL \/ cmp_func(k, @, node) THEN node ELSE @]

RECURSIVE validate_node_recursive(_, _, _, _, _)

\* validate_node_recursive that counts every node, red or black, in the height
ValidateHeights_CountsRed(ch, node, left_black_height, r) ==
    IF r.ret < 0
    THEN [ctx |-> r.ctx, ret |-> -1]
    ELSE IF left_black_height # r.ret
    THEN ValidationFailure(r.ctx, "black_height_consistent",
                           "Property 4 violated: Inconsistent black height in subtrees",
                           node, 4)
    ELSE [ctx |-> r.ctx, ret |-> left_black_height + 1]

\* validate_node_recursive, property 4 and the returned black height, once
\* the right subtree returned r
ValidateHeights(ch, node, left_black_height, r) ==
    IF r.ret < 0
    THEN [ctx |-> r.ctx, ret |-> -1]
    ELSE IF left_black_height # r.ret
    THEN ValidationFailure(r.ctx, "black_height_consistent",
                           "Property 4 violated: Inconsistent black height in subtrees",
                           node, 4)
    ELSE [ctx |-> r.ctx,
          ret |-> IF is_black(ch, node) THEN left_black_height + 1
                  ELSE left_black_height]

\* validate_node_recursive, once the left subtree returned l
ValidateRight(ch, k, node, right, l) ==
    IF l.ret < 0
    THEN [ctx |-> l.ctx, ret |-> -1]
    ELSE ValidateHeights(ch, node, l.ret,
                         validate_node_recursive(ch, k, right, node, l.ctx))

\* validate_node_recursive, properties 3 and 5, then the two subtrees
ValidateChildren(ch, k, node, ctx, left, right) ==
    IF is_red(ch, node) /\ ((left # NULL /\ is_red(ch, left))
                            \/ (right # NULL /\ is_red(ch, right)))
    THEN ValidationFailure(ctx, "red_children_black",
                           "Property 3 violated: Red node has red child", node, 3)
    ELSE IF left # NULL /\ right = NULL /\ is_black(ch, left)
    THEN ValidationFailure(ctx, "single_child_red",
                           "Property 5 violated: Single left child is black", node, 5)
    ELSE IF left = NULL /\ right # NULL /\ is_black(ch, right)
    THEN ValidationFailure(ctx, "single_child_red",
                           "Property 5 violated: Single right child is black", node, 5)
    ELSE ValidateRight(ch, k, node, right,
                       validate_node_recursive(ch, k, left, node, ctx))

\* validate_node_recursive, property 1 and the ordering against the parent
ValidateOrder(ch, k, node, parent, ctx) ==
    IF get_color(ch, node) \notin {RB_RED, RB_BLACK}
    THEN ValidationFailure(ctx, "node_colors",
                           "Property 1 violated: Node has invalid color", node, 1)
    ELSE IF parent # NULL /\ node = get_child(ch, parent, RB_LEFT)
            /\ ~cmp_func(k, node, parent)
    THEN ValidationFailure(ctx, "bst_property",
                           "BST property violated: left child >= parent", node, 0)
    ELSE IF parent # NULL /\ node # get_child(ch, parent, RB_LEFT)
            /\ node = get_child(ch, parent, RB_RIGHT) /\ cmp_func(k, node, parent)
    THEN ValidationFailure(ctx, "bst_property",
                           "BST property violated: right child < parent", node, 0)
    ELSE ValidateChildren(ch, k, node, ctx,
                          get_child(ch, node, RB_LEFT), get_child(ch, node, RB_RIGHT))

\* the result is [ctx, ret]: the context the call leaves and the value returned
validate_node_recursive(ch, k, node, parent, ctx) ==
    IF node = NULL
    THEN [ctx |-> [ctx EXCEPT !.null_nodes_encountered = @ + 1], ret |-> 0]
    ELSE ValidateOrder(ch, k, node, parent, CountNode(k, ctx, node))

\* rb_validate_tree, after the recursive validation returned v
ValidationResult(v) ==
    IF v.ret >= 0
    THEN [v.ctx.result EXCEPT !.black_height = v.ret, !.null_nodes_black = TRUE]
    ELSE [v.ctx.result EXCEPT !.valid = FALSE]

\* rb_validate_tree that tests the tree pointer but not the comparator
rb_validate_tree_NoCmpCheck(tree, cmp, ch, rt, k) ==
    IF tree = NULL
    THEN set_validation_error(NewResult, "NULL tree or missing comparison function",
                              NULL, 0)
    ELSE IF rt = NULL
    THEN [NewResult EXCEPT !.null_nodes_black = TRUE]
    ELSE IF is_red(ch, rt)
    THEN set_validation_error([NewResult EXCEPT !.root_is_black = FALSE],
                              "Root node is red (violates standard RB convention)",
                              rt, 0)
    ELSE ValidationResult(
             validate_node_recursive(ch, k, rt, NULL,
                                     [result |-> NewResult, min_node |-> NULL,
                                      max_node |-> NULL, null_nodes_encountered |-> 0]))

\* tree is the pointer passed (NULL or not), cmp is tree->cmp_func (NULL or
\* not), ch, rt, k are the memory, tree->root and the keys the comparator reads
rb_validate_tree(tree, cmp, ch, rt, k) ==
    IF tree = NULL \/ cmp = NULL
    THEN set_validation_error(NewResult, "NULL tree or missing comparison function",
                              NULL, 0)
    ELSE IF rt = NULL
    THEN [NewResult EXCEPT !.null_nodes_black = TRUE]
    ELSE IF is_red(ch, rt)
    THEN set_validation_error([NewResult EXCEPT !.root_is_black = FALSE],
                              "Root node is red (violates standard RB convention)",
                              rt, 0)
    ELSE ValidationResult(
             validate_node_recursive(ch, k, rt, NULL,
                                     [result |-> NewResult, min_node |-> NULL,
                                      max_node |-> NULL, null_nodes_encountered |-> 0]))

\* a failed cache check of rb_validate_cached_tree
CacheFailure(result, msg, node) ==
    set_validation_error([result EXCEPT !.cache_consistency = FALSE], msg, node, 0)

\* rb_validate_cached_tree, the cache checks on the result of rb_validate_tree
ValidateCache(result, ch, rt, lc, rc, lm, rm) ==
    IF ~result.valid
    THEN result
    ELSE IF rt = NULL
    THEN IF lc /\ lm # NULL
         THEN CacheFailure(result, "Leftmost cache non-NULL in empty tree", lm)
         ELSE IF rc /\ rm # NULL
         THEN CacheFailure(result, "Rightmost cache non-NULL in empty tree", rm)
         ELSE result
    ELSE IF lc /\ lm # rb_get_minmax(ch, rt, RB_LEFT)
    THEN CacheFailure(result, "Leftmost cache points to wrong node", lm)
    ELSE IF rc /\ rm # rb_get_minmax(ch, rt, RB_RIGHT)
    THEN CacheFailure(result, "Rightmost cache points to wrong node", rm)
    ELSE result

rb_validate_cached_tree(cmp, ch, rt, k, lc, rc, lm, rm) ==
    ValidateCache(rb_validate_tree(1, cmp, ch, rt, k), ch, rt, lc, rc, lm, rm)

\* ------------------------------------------------------------ state machine
InitChildren == [n \in Nodes |-> <<0, 0>>]

InitTree ==
    /\ root = NULL
    /\ children = InitChildren
    /\ key = [n \in Nodes |-> n]
    /\ inTree = {}
    /\ fault = FALSE

NoCache ==
    /\ leftmost_cache = FALSE
    /\ rightmost_cache = FALSE
    /\ rb_leftmost = NULL
    /\ rb_rightmost = NULL

NoBatch ==
    /\ batch = [nodes |-> <<>>, count |-> 0, capacity |-> 0]
    /\ batch_ret = 0
    /\ bulk = FALSE

\* no traversal in progress: both iterator states as _RB_FOREACH_INIT leaves them
NoIter ==
    /\ iters = [i \in Iters |-> FOREACH_INIT]
    /\ outs = [i \in Iters |-> <<>>]

\* no validator call made yet
NoValidation == validation = <<>>

\* no call of rb_insert or rb_remove under way
IdleWork ==
    [pc |-> "idle", stack |-> <<>>, sz |-> 0, null_node |-> NULL, calls |-> 0,
     expect |-> [ch |-> <<>>, root |-> NULL, fault |-> FALSE]]

\* nothing recorded about traversal i: no call of next made yet
NoMutation == [mutated |-> FALSE, throughout |-> {}, stale |-> FALSE]

NoCall == work = IdleWork /\ traversal = [i \in Iters |-> NoMutation]

Init == InitTree /\ NoCache /\ NoBatch /\ NoIter /\ NoValidation /\ NoCall

Insert(n) ==
    /\ ~fault
    /\ n \notin inTree
    /\ LET r == rb_insert(children, root, key, n)
       IN  /\ children' = r.ch
           /\ root' = r.root
           /\ fault' = r.fault
           /\ inTree' = inTree \cup {n}
    /\ UNCHANGED <<key, cacheVars, batchVars, iterVars, validation,
                   work, traversal>>

Remove(n) ==
    /\ ~fault
    /\ LET r == rb_remove(children, root, key, n)
       IN  /\ children' = r.ch
           /\ root' = r.root
           /\ fault' = r.fault
           /\ inTree' = IF r.found THEN inTree \ {n} ELSE inTree
    /\ UNCHANGED <<key, cacheVars, batchVars, iterVars, validation,
                   work, traversal>>

Next == \E n \in Nodes : Insert(n) \/ Remove(n)

Spec == Init /\ [][Next]_vars

\* ---- the cached tree: rb_cached_init, then rb_cached_insert / rb_cached_remove
InitCached ==
    /\ InitTree
    /\ leftmost_cache \in BOOLEAN
    /\ rightmost_cache \in BOOLEAN
    /\ leftmost_cache \/ rightmost_cache
    /\ rb_leftmost = NULL
    /\ rb_rightmost = NULL
    /\ NoBatch
    /\ NoIter
    /\ NoValidation /\ NoCall

CachedInsert(n) ==
    /\ ~fault
    /\ n \notin inTree
    /\ LET r == rb_insert(children, root, key, n)
           u == update_cache_insert(key, leftmost_cache, rightmost_cache,
                                    rb_leftmost, rb_rightmost, n)
       IN  /\ children' = r.ch
           /\ root' = r.root
           /\ fault' = r.fault
           /\ inTree' = inTree \cup {n}
           /\ rb_leftmost' = IF r.fault THEN rb_leftmost ELSE u.lm
           /\ rb_rightmost' = IF r.fault THEN rb_rightmost ELSE u.rm
    /\ UNCHANGED <<key, leftmost_cache, rightmost_cache, batchVars,
                   iterVars, validation, work, traversal>>

CachedRemove(n) ==
    /\ ~fault
    /\ LET r == rb_remove(children, root, key, n)
           u == update_cache_remove(r.ch, r.root, leftmost_cache, rightmost_cache,
                                    rb_leftmost, rb_rightmost, n)
       IN  /\ children' = r.ch
           /\ root' = r.root
           /\ fault' = r.fault
           /\ inTree' = IF r.found THEN inTree \ {n} ELSE inTree
           /\ rb_leftmost' = IF r.fault THEN rb_leftmost ELSE u.lm
           /\ rb_rightmost' = IF r.fault THEN rb_rightmost ELSE u.rm
    /\ UNCHANGED <<key, leftmost_cache, rightmost_cache, batchVars,
                   iterVars, validation, work, traversal>>

NextCached == \E n \in CachedNodes : CachedInsert(n) \/ CachedRemove(n)

SpecCached == InitCached /\ [][NextCached]_vars

\* ---- the batch loader: rb_batch_init, then rb_batch_add / rb_batch_commit
\* on a plain tree that is also open to rb_insert / rb_remove
InitBatch ==
    /\ InitTree
    /\ NoCache
    /\ batch \in {[nodes |-> <<>>, count |-> 0, capacity |-> c] : c \in {1, 2}}
    /\ batch_ret = 0
    /\ bulk = FALSE
    /\ NoIter
    /\ NoValidation /\ NoCall

BatchAdd(n) ==
    /\ ~fault
    /\ n \notin inTree
    /\ \A i \in 1..Len(batch.nodes) : batch.nodes[i] # n
    /\ \E grow \in BOOLEAN :
          LET r == rb_batch_add(batch, n, grow)
          IN  /\ batch' = r.batch
              /\ batch_ret' = r.ret
    /\ UNCHANGED <<treeVars, cacheVars, bulk, iterVars, validation,
                   work, traversal>>

BatchCommit ==
    /\ ~fault
    /\ IF batch.count = 0
       THEN UNCHANGED <<treeVars, batch, bulk>>
       ELSE LET r == rb_batch_commit(children, root, key, batch)
            IN  /\ children' = r.ch
                /\ root' = r.root
                /\ fault' = r.fault
                /\ inTree' = inTree \cup {batch.nodes[i] : i \in 1..Len(batch.nodes)}
                /\ batch' = [batch EXCEPT !.nodes = <<>>, !.count = 0]
                /\ bulk' = (root = NULL)
                /\ UNCHANGED key
    /\ UNCHANGED <<cacheVars, batch_ret, iterVars, validation, work, traversal>>

BatchInsert(n) ==
    /\ ~fault
    /\ n \notin inTree
    /\ \A i \in 1..Len(batch.nodes) : batch.nodes[i] # n
    /\ LET r == rb_insert(children, root, key, n)
       IN  /\ children' = r.ch
           /\ root' = r.root
           /\ fault' = r.fault
           /\ inTree' = inTree \cup {n}
    /\ bulk' = FALSE
    /\ UNCHANGED <<key, cacheVars, batch, batch_ret, iterVars,
                   validation, work, traversal>>

BatchRemove(n) ==
    /\ ~fault
    /\ LET r == rb_remove(children, root, key, n)
       IN  /\ children' = r.ch
           /\ root' = r.root
           /\ fault' = r.fault
           /\ inTree' = IF r.found THEN inTree \ {n} ELSE inTree
           /\ bulk' = (bulk /\ ~r.found /\ ~r.fault)
    /\ UNCHANGED <<key, cacheVars, batch, batch_ret, iterVars,
                   validation, work, traversal>>

NextBatch ==
    \/ \E n \in BatchNodes : BatchAdd(n)
    \/ BatchCommit
    \/ \E n \in BatchNodes : BatchInsert(n)
    \/ \E n \in BatchNodes : BatchRemove(n)

SpecBatch == InitBatch /\ [][NextBatch]_vars

\* ---- the batch loader on a cached tree: rb_cached_init and rb_batch_init,
\* then rb_cached_insert / rb_cached_remove / rb_batch_add /
\* rb_cached_batch_commit
InitCachedBatch ==
    /\ InitTree
    /\ leftmost_cache \in BOOLEAN
    /\ rightmost_cache \in BOOLEAN
    /\ leftmost_cache \/ rightmost_cache
    /\ rb_leftmost = NULL
    /\ rb_rightmost = NULL
    /\ batch = [nodes |-> <<>>, count |-> 0, capacity |-> 2]
    /\ batch_ret = 0
    /\ bulk = FALSE
    /\ NoIter
    /\ NoValidation /\ NoCall

\* the node is not waiting in the batch buffer
NotBuffered(n) == \A i \in 1..Len(batch.nodes) : batch.nodes[i] # n

CachedBatchInsert(n) == NotBuffered(n) /\ CachedInsert(n)

\* the state after a commit that returned r
Committed(r) ==
    /\ children' = r.t.ch
    /\ root' = r.t.root
    /\ fault' = r.t.fault
    /\ inTree' = inTree \cup {batch.nodes[i] : i \in 1..Len(batch.nodes)}
    /\ batch' = [batch EXCEPT !.nodes = <<>>, !.count = 0]
    /\ bulk' = (root = NULL)
    /\ rb_leftmost' = IF r.t.fault THEN rb_leftmost ELSE r.lm
    /\ rb_rightmost' = IF r.t.fault THEN rb_rightmost ELSE r.rm
    /\ UNCHANGED key

CachedBatchCommit ==
    /\ ~fault
    /\ IF batch.count = 0
       THEN UNCHANGED <<treeVars, batch, bulk, rb_leftmost,
                        rb_rightmost>>
       ELSE Committed(rb_cached_batch_commit(children, root, key, batch,
                                             leftmost_cache, rightmost_cache,
                                             rb_leftmost, rb_rightmost))
    /\ UNCHANGED <<leftmost_cache, rightmost_cache, batch_ret,
                   iterVars, validation, work, traversal>>

NextCachedBatch ==
    \/ \E n \in CachedBatchNodes : CachedBatchInsert(n)
    \/ \E n \in CachedBatchNodes : CachedRemove(n)
    \/ \E n \in CachedBatchNodes : BatchAdd(n)
    \/ CachedBatchCommit

SpecCachedBatch == InitCachedBatch /\ [][NextCachedBatch]_vars

\* ---- two traversals of one tree: rb_insert / rb_remove while no traversal
\* is under way, then calls of __rb_foreach_next on either iterator state in
\* any order, and a fresh _RB_FOREACH_INIT of either
NoTraversal == \A i \in Iters : iters[i] = FOREACH_INIT /\ outs[i] = <<>>

IterInsert(n) == NoTraversal /\ Insert(n)

IterRemove(n) == NoTraversal /\ Remove(n)

\* the call on iterator i whose buffer is shared with the other iterator
IterNext_SharedBuffer(i) ==
    /\ ~fault
    /\ Len(outs[i]) < Cardinality(inTree) + 2
    /\ iters' = [j \in Iters |->
                    IF j = i
                    THEN rb_foreach_next(children, root, iters[i]).f
                    ELSE [iters[j] EXCEPT
                              !.buffer = rb_foreach_next(children, root, iters[i]).f.buffer]]
    /\ outs' = [outs EXCEPT ![i] = Append(@, rb_foreach_next(children, root, iters[i]).ret)]
    /\ UNCHANGED <<treeVars, cacheVars, batchVars, validation, work, traversal>>

\* one call of __rb_foreach_next on iterator i; at most two calls follow the
\* call that returned the last node
IterNext(i) ==
    /\ ~fault
    /\ Len(outs[i]) < Cardinality(inTree) + 2
    /\ iters' = [iters EXCEPT ![i] = rb_foreach_next(children, root, iters[i]).f]
    /\ outs' = [outs EXCEPT ![i] = Append(@, rb_foreach_next(children, root, iters[i]).ret)]
    /\ UNCHANGED <<treeVars, cacheVars, batchVars, validation, work, traversal>>

\* the loop is left and RB_FOREACH constructs a fresh iterator state
IterRestart(i) ==
    /\ ~fault
    /\ outs[i] # <<>>
    /\ iters' = [iters EXCEPT ![i] = FOREACH_INIT]
    /\ outs' = [outs EXCEPT ![i] = <<>>]
    /\ UNCHANGED <<treeVars, cacheVars, batchVars, validation, work, traversal>>

NextIter ==
    \/ \E n \in IterNodes : IterInsert(n)
    \/ \E n \in IterNodes : IterRemove(n)
    \/ \E i \in Iters : IterNext(i)
    \/ \E i \in Iters : IterRestart(i)

SpecIter == Init /\ [][NextIter]_vars

\* ------------------------------------------------- structure of the tree
\* the walk of check_rbnode: the nodes below n, the number of visits, and the
\* black counts of the paths from n down to an absent child
Fuel == MaxNodes + 1

RECURSIVE Subtree(_, _, _)
Subtree(ch, n, fuel) ==
    IF n = NULL \/ fuel = 0
    THEN {}
    ELSE {n} \cup Subtree(ch, get_child(ch, n, RB_LEFT), fuel - 1)
             \cup Subtree(ch, get_child(ch, n, RB_RIGHT), fuel - 1)

RECURSIVE Visits(_, _, _)
Visits(ch, n, fuel) ==
    IF n = NULL THEN 0
    ELSE IF fuel = 0 THEN MaxNodes + 1
    ELSE 1 + Visits(ch, get_child(ch, n, RB_LEFT), fuel - 1)
           + Visits(ch, get_child(ch, n, RB_RIGHT), fuel - 1)

RECURSIVE BlackCounts(_, _, _)
BlackCounts(ch, n, fuel) ==
    IF n = NULL THEN {0}
    ELSE IF fuel = 0 THEN {-1}
    ELSE LET b == IF is_black(ch, n) THEN 1 ELSE 0
         IN  {x + b : x \in BlackCounts(ch, get_child(ch, n, RB_LEFT), fuel - 1)
                          \cup BlackCounts(ch, get_child(ch, n, RB_RIGHT), fuel - 1)}

TreeNodes == Subtree(children, root, Fuel)

\* every node is reached along exactly one path from the root
IsTree(ch, rt) == Visits(ch, rt, Fuel) = Cardinality(Subtree(ch, rt, Fuel))

EqualBlackCount(ch, rt) == Cardinality(BlackCounts(ch, rt, Fuel)) = 1

NoRedRed(ch, rt) ==
    \A x \in Subtree(ch, rt, Fuel) :
        is_red(ch, x) =>
            \A side \in {RB_LEFT, RB_RIGHT} :
                get_child(ch, x, side) # NULL => is_black(ch, get_child(ch, x, side))

IsBST(ch, rt, k) ==
    \A x \in Subtree(ch, rt, Fuel) :
        /\ \A y \in Subtree(ch, get_child(ch, x, RB_LEFT), Fuel) : cmp_func(k, y, x)
        /\ \A y \in Subtree(ch, get_child(ch, x, RB_RIGHT), Fuel) : cmp_func(k, x, y)

SingleChildRed(ch, rt) ==
    \A x \in Subtree(ch, rt, Fuel) :
        \A side \in {RB_LEFT, RB_RIGHT} :
            (get_child(ch, x, side) # NULL /\ get_child(ch, x, OtherSide(side)) = NULL)
                => (is_red(ch, get_child(ch, x, side)) /\ is_black(ch, x))

\* the nodes of S in increasing comparator order (S totally ordered by k)
RECURSIVE SortedSeq(_, _)
SortedSeq(S, k) ==
    IF S = {} THEN <<>>
    ELSE LET m == CHOOSE x \in S : \A y \in S \ {x} : cmp_func(k, x, y)
         IN  <<m>> \o SortedSeq(S \ {m}, k)

\* a node that was inserted and later removed keeps its last colour and links
Removed(n) == n \notin inTree /\ children[n] # <<0, 0>>

HasRed == \E x \in TreeNodes : is_red(children, x)

\* ---- the validator on arbitrary trees: the caller hands rb_validate_tree
\* any tree shape, colouring and placement of the nodes, a NULL tree pointer
\* or a tree without comparator
\* the trees over exactly the nodes of S, as [root, ch]: every choice of the
\* root, of the nodes of its left subtree and of the colours
RECURSIVE TreesOver(_, _)
TreesOver(S, D) ==
    IF S = {}
    THEN {[root |-> NULL, ch |-> [n \in D |-> <<0, 0>>]]}
    ELSE UNION {{[root |-> r,
                  ch |-> [n \in D |->
                             IF n = r THEN <<Addr(l.root) + c, g.root>>
                             ELSE IF n \in L THEN l.ch[n] ELSE g.ch[n]]] :
                     l \in TreesOver(L, D),
                     g \in TreesOver(S \ ({r} \cup L), D),
                     c \in {RB_RED, RB_BLACK}} :
                <<r, L>> \in {<<x, M>> \in S \X SUBSET S : x \notin M}}

\* every tree over a subset of D
AllTrees(D) == UNION {TreesOver(S, D) : S \in SUBSET D}

InitValidate ==
    /\ \E t \in AllTrees(ValNodes) :
          /\ root = t.root
          /\ children = t.ch
          /\ inTree = Subtree(t.ch, t.root, Fuel)
    /\ key = [n \in ValNodes |-> n]
    /\ fault = FALSE
    /\ NoCache
    /\ NoBatch
    /\ NoIter
    /\ NoValidation /\ NoCall

\* one call of rb_validate_tree; tree and cmp are the tree pointer passed and
\* its cmp_func member, NULL or not
Validate ==
    /\ \E tree \in {NULL, 1}, cmp \in {NULL, 1} :
          validation' = <<[tree |-> tree, cmp_func |-> cmp,
                           result |-> rb_validate_tree(tree, cmp, children, root, key)]>>
    /\ UNCHANGED <<treeVars, cacheVars, batchVars, iterVars, work, traversal>>

NextValidate == Validate

SpecValidate == InitValidate /\ [][NextValidate]_vars

\* ---- the validators on arbitrary cached trees: any tree and any value of
\* the enabled cache pointers
InitValidateCached ==
    /\ \E t \in AllTrees(ValCachedNodes) :
          /\ root = t.root
          /\ children = t.ch
          /\ inTree = Subtree(t.ch, t.root, Fuel)
    /\ key = [n \in ValCachedNodes |-> n]
    /\ fault = FALSE
    /\ leftmost_cache \in BOOLEAN
    /\ rightmost_cache \in BOOLEAN
    /\ leftmost_cache \/ rightmost_cache
    /\ rb_leftmost \in IF leftmost_cache THEN {NULL} \cup ValCachedNodes ELSE {NULL}
    /\ rb_rightmost \in IF rightmost_cache THEN {NULL} \cup ValCachedNodes ELSE {NULL}
    /\ NoBatch
    /\ NoIter
    /\ NoValidation /\ NoCall

\* rb_validate_cached_tree that resets a cache pointer it finds wrong
ValidateCached_Repair ==
    /\ validation' = <<[tree |-> 1, cmp_func |-> 1,
                        result |-> rb_validate_cached_tree(
                                       1, children, root, key,
                                       leftmost_cache, rightmost_cache,
                                       rb_leftmost, rb_rightmost)]>>
    /\ rb_leftmost' = IF leftmost_cache THEN rb_get_minmax(children, root, RB_LEFT)
                      ELSE rb_leftmost
    /\ UNCHANGED <<treeVars, leftmost_cache, rightmost_cache, rb_rightmost,
                   batchVars, iterVars, work, traversal>>

\* one call of rb_validate_cached_tree on a cached tree
ValidateCached ==
    /\ validation' = <<[tree |-> 1, cmp_func |-> 1,
                        result |-> rb_validate_cached_tree(
                                       1, children, root, key,
                                       leftmost_cache, rightmost_cache,
                                       rb_leftmost, rb_rightmost)]>>
    /\ UNCHANGED <<treeVars, cacheVars, batchVars, iterVars, work, traversal>>

NextValidateCached == Validate \/ ValidateCached

SpecValidateCached == InitValidateCached /\ [][NextValidateCached]_vars

\* ---- a comparator that is a strict weak order: the keys of distinct nodes
\* may be equal, and then neither node is less than the other
InitWeak ==
    /\ root = NULL
    /\ children = [n \in WeakNodes |-> <<0, 0>>]
    /\ key \in [WeakNodes -> WeakKeys]
    /\ inTree = {}
    /\ fault = FALSE
    /\ NoCache
    /\ NoBatch
    /\ NoIter
    /\ NoValidation /\ NoCall

NextWeak == \E n \in WeakNodes : Insert(n) \/ Remove(n)

SpecWeak == InitWeak /\ [][NextWeak]_vars

\* ---- a tree that only grows: rb_insert of distinct nodes in any order
InitGrow ==
    /\ root = NULL
    /\ children = [n \in GrowNodes |-> <<0, 0>>]
    /\ key = [n \in GrowNodes |-> n]
    /\ inTree = {}
    /\ fault = FALSE
    /\ NoCache
    /\ NoBatch
    /\ NoIter
    /\ NoValidation /\ NoCall

NextGrow == \E n \in GrowNodes : Insert(n)

SpecGrow == InitGrow /\ [][NextGrow]_vars

\* -------------------------------------------------------------- properties
\* C1: after every completed rb_insert or rb_remove, every path from the root
\* to an absent child passes through the same number of black nodes.
C1_EqualBlackCount == (~fault) => (IsTree(children, root) /\ EqualBlackCount(children, root))

\* a tree of black height 2 or more out of which a node has been removed
C1_Witness ==
    /\ ~fault
    /\ Cardinality(inTree) >= 4
    /\ \E n \in Nodes : Removed(n)
    /\ BlackCounts(children, root, Fuel) \cap {0, 1} = {}

\* C2: after every completed rb_insert or rb_remove no red node has a red
\* child.
C2_NoRedRed == (~fault) => NoRedRed(children, root)

\* a tree with a red node that has two children, after a removal
C2_Witness ==
    /\ ~fault
    /\ \E n \in Nodes : Removed(n)
    /\ \E x \in TreeNodes :
          /\ is_red(children, x)
          /\ get_child(children, x, RB_LEFT) # NULL
          /\ get_child(children, x, RB_RIGHT) # NULL

\* C3: after every completed rb_insert or rb_remove the tree is a binary
\* search tree: everything in the left subtree of x is less than x and x is
\* less than everything in its right subtree.
C3_BST == (~fault) => (IsTree(children, root) /\ IsBST(children, root, key))

\* a removed node whose stale left link is non-null and whose right link is
\* null although it is not a leaf colour-wise: the state after the removal of
\* a node that had two children (predecessor swap), the tree still holding
\* nodes on both sides of the root
C3_Witness ==
    /\ ~fault
    /\ root # NULL
    /\ get_child(children, root, RB_LEFT) # NULL
    /\ get_child(children, root, RB_RIGHT) # NULL
    /\ \E n \in Nodes :
          /\ Removed(n)
          /\ \E a \in inTree : key[a] < key[n]
          /\ \E b \in inTree : key[n] < key[b]

\* C4: after every completed rb_insert or rb_remove, tree->root is NULL
\* exactly when the tree holds no nodes, and otherwise is a black node from
\* which every node of the tree is reached.
C4_RootBlackAncestor ==
    (~fault) =>
        /\ (root = NULL) <=> (inTree = {})
        /\ root # NULL => (is_black(children, root) /\ TreeNodes = inTree)

\* the root is a node other than the first and the last of the order, it has
\* two children, and a node has been removed
C4_Witness ==
    /\ ~fault
    /\ root # NULL
    /\ Cardinality(inTree) >= 3
    /\ \E n \in Nodes : Removed(n)
    /\ get_child(children, root, RB_LEFT) # NULL
    /\ get_child(children, root, RB_RIGHT) # NULL

\* C5: a full traversal with a fresh iterator returns exactly the nodes
\* inserted and not since removed, each once, in strictly increasing
\* comparator order; their number is inserts minus successful removes.
C5_Traversal ==
    (~fault) =>
        /\ RB_FOREACH(children, root) = SortedSeq(inTree, key)
        /\ Len(RB_FOREACH(children, root)) = Cardinality(inTree)

\* a traversal of four or more nodes after a removal
C5_Witness ==
    /\ ~fault
    /\ Len(RB_FOREACH(children, root)) >= 4
    /\ \E n \in Nodes : Removed(n)

\* C6: rb_contains(tree, n) is true if and only if n has been inserted and
\* not since removed, for every node n.
C6_Contains ==
    (~fault) => \A n \in Nodes : rb_contains(children, root, key, n) <=> (n \in inTree)

\* a tree that holds some nodes and lacks a node that was removed from it
C6_Witness ==
    /\ ~fault
    /\ Cardinality(inTree) >= 3
    /\ \E n \in Nodes : Removed(n) /\ ~rb_contains(children, root, key, n)

\* C7: rb_remove on a non-empty tree of a node that is not in the tree is a
\* no-op: root, every child link and every colour are unchanged, and so are
\* rb_get_min, rb_get_max and the traversal.
C7_RemoveAbsentNoop ==
    (~fault /\ root # NULL) =>
        \A n \in Nodes \ inTree :
            LET r == rb_remove(children, root, key, n)
            IN  /\ ~r.fault
                /\ ~r.found
                /\ r.root = root
                /\ r.ch = children
                /\ rb_get_minmax(r.ch, r.root, RB_LEFT) = rb_get_minmax(children, root, RB_LEFT)
                /\ rb_get_minmax(r.ch, r.root, RB_RIGHT) = rb_get_minmax(children, root, RB_RIGHT)
                /\ RB_FOREACH(r.ch, r.root) = RB_FOREACH(children, root)

\* a non-empty tree and an absent node whose stale links still point at
\* nodes of the tree
C7_Witness ==
    /\ ~fault
    /\ root # NULL
    /\ \E n \in Nodes \ inTree :
          \E side \in {RB_LEFT, RB_RIGHT} : get_child(children, n, side) \in inTree

\* C8: rb_remove on an empty tree returns as a no-op, without handing the
\* NULL root to the comparator or reading its children, and leaves the tree
\* empty.
C8_RemoveOnEmptyNoop == ~(fault /\ root = NULL)

\* the red-black invariants of a tree: black root, no red-red adjacency, equal
\* black count on every path, a single child is red, BST ordering
RedBlackValid(ch, rt, k) ==
    /\ IsTree(ch, rt)
    /\ (rt # NULL => is_black(ch, rt))
    /\ NoRedRed(ch, rt)
    /\ EqualBlackCount(ch, rt)
    /\ SingleChildRed(ch, rt)
    /\ IsBST(ch, rt, k)

\* C9: after rb_batch_commit of any n >= 1 distinct nodes into an empty tree
\* the tree satisfies all the red-black invariants.
C9_BatchCommitValid == (bulk /\ ~fault) => RedBlackValid(children, root, key)

\* C10: after any sequence of rb_cached_insert and rb_cached_remove,
\* rb_cached_get_min and rb_cached_get_max return the nodes an uncached
\* leftmost/rightmost descent from the root returns: the first and the last
\* node of the in-order traversal.
C10_CachedMinMax ==
    (~fault) =>
        LET mn == rb_cached_get_min(children, root, leftmost_cache, rb_leftmost)
            mx == rb_cached_get_max(children, root, rightmost_cache, rb_rightmost)
            walk == RB_FOREACH(children, root)
        IN  /\ mn = rb_get_minmax(children, root, RB_LEFT)
            /\ mx = rb_get_minmax(children, root, RB_RIGHT)
            /\ mn = (IF walk = <<>> THEN NULL ELSE walk[1])
            /\ mx = (IF walk = <<>> THEN NULL ELSE walk[Len(walk)])

\* both caches enabled, and both the former minimum and the former maximum
\* have been removed from a tree that still holds two nodes
C10_Witness ==
    /\ ~fault
    /\ leftmost_cache /\ rightmost_cache
    /\ Cardinality(inTree) >= 2
    /\ \E n \in Nodes : Removed(n) /\ \A x \in inTree : key[n] < key[x]
    /\ \E n \in Nodes : Removed(n) /\ \A x \in inTree : key[x] < key[n]
    /\ rb_leftmost \in inTree
    /\ rb_rightmost \in inTree

\* C11: after rb_cached_batch_commit, into an empty cached tree or into one
\* that already held nodes, rb_cached_get_min and rb_cached_get_max return
\* the leftmost and the rightmost node of the tree.
C11_CachedBatchCommitMinMax ==
    (~fault) =>
        /\ rb_cached_get_min(children, root, leftmost_cache, rb_leftmost)
               = rb_get_minmax(children, root, RB_LEFT)
        /\ rb_cached_get_max(children, root, rightmost_cache, rb_rightmost)
               = rb_get_minmax(children, root, RB_RIGHT)

\* C12: after any sequence of rb_cached_insert and rb_cached_remove,
\* rb_cached_contains(tree, n) equals rb_contains(&tree->rb_root, n) for every
\* node n: those below the cached minimum, those above the cached maximum,
\* and the cached extrema themselves.
C12_CachedContains ==
    (~fault) =>
        \A n \in Nodes :
            rb_cached_contains(children, root, key, leftmost_cache, rightmost_cache,
                               rb_leftmost, rb_rightmost, n)
                <=> rb_contains(children, root, key, n)

\* both caches enabled, the tree holds two nodes, a removed node sorts below
\* the cached minimum and another node sorts above the cached maximum
C12_Witness ==
    /\ ~fault
    /\ leftmost_cache /\ rightmost_cache
    /\ Cardinality(inTree) >= 2
    /\ rb_leftmost # NULL /\ rb_rightmost # NULL /\ rb_leftmost # rb_rightmost
    /\ \E n \in CachedNodes : Removed(n) /\ cmp_func(key, n, rb_leftmost)
    /\ \E n \in CachedNodes \ inTree : cmp_func(key, rb_rightmost, n)
    /\ rb_cached_contains(children, root, key, leftmost_cache, rightmost_cache,
                          rb_leftmost, rb_rightmost, rb_leftmost)
    /\ rb_cached_contains(children, root, key, leftmost_cache, rightmost_cache,
                          rb_leftmost, rb_rightmost, rb_rightmost)

\* C13: rb_get_min and rb_get_max return NULL on an empty tree and otherwise
\* the first and the last node of the in-order traversal, after any sequence
\* of rb_insert and rb_remove.
C13_GetMinMax ==
    (~fault) =>
        IF root = NULL
        THEN rb_get_min(children, root) = NULL /\ rb_get_max(children, root) = NULL
        ELSE /\ RB_FOREACH(children, root) # <<>>
             /\ rb_get_min(children, root) = Head(RB_FOREACH(children, root))
             /\ rb_get_max(children, root)
                    = RB_FOREACH(children, root)[Len(RB_FOREACH(children, root))]

\* after a removal, a tree of four or more nodes whose minimum and maximum
\* both lie two links below the root
C13_Witness ==
    /\ ~fault
    /\ Cardinality(inTree) >= 4
    /\ \E n \in Nodes : Removed(n)
    /\ rb_get_min(children, root) \notin {NULL, root, get_child(children, root, RB_LEFT)}
    /\ rb_get_max(children, root) \notin {NULL, root, get_child(children, root, RB_RIGHT)}

\* C14: after rb_batch_commit of n distinct buffered nodes into an empty
\* tree, rb_contains is true for each of the n nodes and false for every
\* other node, and a traversal returns exactly those n nodes in strictly
\* increasing order, whatever the order of the rb_batch_add calls.
C14_BatchCommitContents ==
    (bulk /\ ~fault) =>
        /\ \A n \in Nodes : rb_contains(children, root, key, n) <=> (n \in inTree)
        /\ RB_FOREACH(children, root) = SortedSeq(inTree, key)
        /\ Len(RB_FOREACH(children, root)) = Cardinality(inTree)

\* the tree is as a commit of four nodes into an empty tree built it
C14_Witness ==
    /\ bulk /\ ~fault
    /\ root # NULL
    /\ Cardinality(inTree) = MaxBatchNodes
    /\ \A n \in inTree : is_black(children, n)

\* rb_insert of the nodes of a sequence, first to last, as a caller would
\* write it
RECURSIVE InsertsInOrder(_, _, _, _)
InsertsInOrder(ch, rt, k, nodes) ==
    IF nodes = <<>>
    THEN [ch |-> ch, root |-> rt, fault |-> FALSE]
    ELSE IF rb_insert(ch, rt, k, Head(nodes)).fault
    THEN [ch |-> rb_insert(ch, rt, k, Head(nodes)).ch,
          root |-> rb_insert(ch, rt, k, Head(nodes)).root, fault |-> TRUE]
    ELSE InsertsInOrder(rb_insert(ch, rt, k, Head(nodes)).ch,
                        rb_insert(ch, rt, k, Head(nodes)).root, k, Tail(nodes))

\* C15: rb_batch_commit into a non-empty tree leaves exactly the links and
\* colours that rb_insert of each buffered node, in the order the nodes were
\* added, leaves; a tree that satisfied the red-black invariants still does.
C15_BatchCommitNonEmpty ==
    (~fault /\ root # NULL /\ batch.count > 0) =>
        /\ rb_batch_commit(children, root, key, batch)
               = InsertsInOrder(children, root, key, batch.nodes)
        /\ RedBlackValid(children, root, key) =>
               /\ ~rb_batch_commit(children, root, key, batch).fault
               /\ RedBlackValid(rb_batch_commit(children, root, key, batch).ch,
                                rb_batch_commit(children, root, key, batch).root, key)

\* a valid non-empty tree and a buffer of two nodes added in decreasing
\* order, whose commit moves the root
C15_Witness ==
    /\ ~fault
    /\ root # NULL
    /\ RedBlackValid(children, root, key)
    /\ batch.count >= 2
    /\ cmp_func(key, batch.nodes[2], batch.nodes[1])
    /\ rb_batch_commit(children, root, key, batch).root # root

\* C16: for a valid tree and a node n in it, rb_remove(tree, n) followed by
\* rb_insert(tree, n), with the links and the colour that the removal left
\* in n, gives a tree with the same in-order traversal that satisfies all the
\* red-black invariants.
C16_RemoveReinsert ==
    (~fault) =>
        \A n \in inTree :
            LET r == rb_remove(children, root, key, n)
                q == rb_insert(r.ch, r.root, key, n)
            IN  /\ r.found /\ ~r.fault /\ ~q.fault
                /\ RB_FOREACH(q.ch, q.root) = RB_FOREACH(children, root)
                /\ RedBlackValid(q.ch, q.root, key)

\* a node with two children that the removal leaves with a link to a node
\* of the tree, in a tree of five nodes
C16_Witness ==
    /\ ~fault
    /\ Cardinality(inTree) >= 5
    /\ \E n \in inTree :
          /\ get_child(children, n, RB_LEFT) # NULL
          /\ get_child(children, n, RB_RIGHT) # NULL
          /\ \E side \in {RB_LEFT, RB_RIGHT} :
                get_child(rb_remove(children, root, key, n).ch, n, side) \in inTree \ {n}
          /\ rb_insert(rb_remove(children, root, key, n).ch,
                       rb_remove(children, root, key, n).root, key, n).ch # children

\* the first len results of calling next again and again on a fresh
\* iterator over the node set S: its nodes in increasing order, then NULL
Expected(S, k, len) ==
    [j \in 1..len |-> IF j <= Cardinality(S) THEN SortedSeq(S, k)[j] ELSE NULL]

\* C17: an iterator state goes uninitialised -> active -> exhausted and never
\* back: on an unmodified tree of n nodes the first n calls of
\* __rb_foreach_next return nodes, the (n+1)-th returns NULL and every later
\* call returns NULL.
C17_IteratorStates ==
    (~fault) =>
        \A i \in Iters :
            /\ \A j \in 1..Len(outs[i]) :
                   (outs[i][j] # NULL) <=> (j <= Cardinality(inTree))
            /\ (outs[i] = <<>>) => iters[i].top = RB_ITER_UNINIT
            /\ Len(outs[i]) \in 1..Cardinality(inTree) => iters[i].top > 0
            /\ (root # NULL /\ Len(outs[i]) > Cardinality(inTree))
                   => iters[i].top = RB_ITER_DONE

\* a traversal of a tree of three nodes that was called twice more after it
\* returned NULL
C17_Witness ==
    /\ ~fault
    /\ Cardinality(inTree) >= 3
    /\ \E i \in Iters :
          /\ Len(outs[i]) = Cardinality(inTree) + 2
          /\ iters[i].top = RB_ITER_DONE

\* C18: two iterator states over the same unmodified tree, with their next
\* calls interleaved in any order, each return the complete in-order
\* sequence whatever the other does; a fresh iterator restarts from the
\* minimum.
C18_IndependentIterators ==
    (~fault) => \A i \in Iters : outs[i] = Expected(inTree, key, Len(outs[i]))

\* both traversals are under way at different positions of a tree of four
\* nodes
C18_Witness ==
    /\ ~fault
    /\ Cardinality(inTree) >= 4
    /\ iters[1].top > 0 /\ iters[2].top > 0
    /\ Len(outs[1]) = 3 /\ Len(outs[2]) = 1
    /\ iters[1].buffer # iters[2].buffer

\* C19: for every cached tree reached by rb_cached_insert and
\* rb_cached_remove, the nodes __rb_cached_foreach_next returns, in order, are
\* those __rb_foreach_next returns on the embedded plain tree.
C19_CachedForeach ==
    (~fault) =>
        RB_CACHED_FOREACH(children, root, leftmost_cache, rb_leftmost)
            = RB_FOREACH(children, root)

\* the leftmost cache is enabled and, after a removal, the cached leftmost
\* node lies below the root of a tree of three nodes
C19_Witness ==
    /\ ~fault
    /\ leftmost_cache
    /\ Cardinality(inTree) >= 3
    /\ \E n \in CachedNodes : Removed(n)
    /\ rb_leftmost \notin {NULL, root}
    /\ build_path_to_leftmost(children, root, leftmost_cache, rb_leftmost, <<>>).depth >= 2

\* C20: in every comparator call made while rb_insert or rb_cached_insert
\* inserts a node (path search, choice of the link side, update of the
\* min/max cache), the node being inserted is the first argument and the
\* second argument is another node, already in the tree.
C20_InsertedNodeFirst ==
    (~fault) =>
        \A n \in CachedNodes \ inTree :
            \A call \in cached_insert_cmp_calls(children, root, key,
                                                leftmost_cache, rightmost_cache,
                                                rb_leftmost, rb_rightmost, n) :
                /\ call[1] = n
                /\ call[2] # n
                /\ call[2] \in inTree

\* rb_remove returned r for node n of the tree: n was found and the tree
\* holds exactly the other nodes
RemovesExactly(r, n) ==
    r.found /\ ~r.fault /\ Subtree(r.ch, r.root, Fuel) = inTree \ {n}

\* C21: when the comparator is a strict weak order under which distinct
\* nodes may compare equivalent, then after any sequence of rb_insert and
\* rb_remove calls every node that was inserted and not since removed is
\* reported present by rb_contains, and rb_remove of such a node removes
\* exactly that node.
C21_WeakOrderMembership ==
    (~fault) =>
        \A n \in inTree :
            /\ rb_contains(children, root, key, n)
            /\ RemovesExactly(rb_remove(children, root, key, n), n)

\* the report of a valid tree: valid, every flag true, no error, the node
\* count and the black height of the tree
ReportOfValid(r) ==
    /\ r.valid
    /\ r.node_colors /\ r.null_nodes_black /\ r.red_children_black
    /\ r.black_height_consistent /\ r.single_child_red
    /\ r.root_is_black /\ r.bst_property /\ r.cache_consistency
    /\ r.error_msg = NoMessage /\ r.error_node = NULL /\ r.violation_property = 0
    /\ r.node_count = Cardinality(inTree)
    /\ BlackCounts(children, root, Fuel) = {r.black_height}

\* C22: after every operation of any rb_insert/rb_remove sequence,
\* rb_validate_tree returns valid = true with every per-invariant flag true,
\* node_count equal to the number of nodes in the tree, and black_height
\* equal to the number of black nodes on a path from the root to an absent
\* child.
C22_ValidateReachable ==
    (~fault) => ReportOfValid(rb_validate_tree(1, 1, children, root, key))

C22_Witness ==
    /\ ~fault
    /\ Cardinality(inTree) >= 5
    /\ HasRed
    /\ \E n \in Nodes : Removed(n)
    /\ rb_validate_tree(1, 1, children, root, key).black_height >= 2

\* C23: for every tree shape, colouring and placement of the keys,
\* rb_validate_tree reports valid = true only if the BST ordering holds over
\* whole subtrees, that is only if the in-order traversal is strictly
\* increasing under the comparator.
C23_ValidOnlyIfOrdered ==
    (validation # <<>> /\ validation[1].result.valid)
        => (IsBST(children, root, key)
            /\ RB_FOREACH(children, root) = SortedSeq(inTree, key))

\* C24: rb_validate_tree and rb_validate_cached_tree never modify the tree:
\* root, child links, colours and cached min/max pointers are the same
\* before and after the call, for valid and invalid trees alike.
C24_ValidateFrame ==
    [][validation' # validation
          => /\ root' = root
             /\ children' = children
             /\ rb_leftmost' = rb_leftmost
             /\ rb_rightmost' = rb_rightmost]_vars

C24_Witness ==
    /\ validation # <<>>
    /\ root # NULL
    /\ ~validation[1].result.valid
    /\ ~validation[1].result.cache_consistency

\* C25: rb_validate_tree called with a NULL tree or with a tree whose
\* comparator is NULL returns a report with valid = false, an error message,
\* violation_property = 0 and node_count = 0: no node is visited.
C25_NullTreeReport ==
    (validation # <<>>
     /\ (validation[1].tree = NULL \/ validation[1].cmp_func = NULL))
        => /\ ~validation[1].result.valid
           /\ validation[1].result.error_msg # NoMessage
           /\ validation[1].result.error_node = NULL
           /\ validation[1].result.violation_property = 0
           /\ validation[1].result.node_count = 0

C25_Witness ==
    /\ validation # <<>>
    /\ validation[1].tree # NULL
    /\ validation[1].cmp_func = NULL
    /\ Cardinality(inTree) >= 2
    /\ RedBlackValid(children, root, key)

\* C26: after any sequence of rb_cached_insert and rb_cached_remove calls
\* that starts from rb_cached_init, each enabled cache pointer is NULL if
\* and only if the tree is empty, and a pointer that is not NULL points to a
\* node of the tree.
C26_CachePointers ==
    (~fault) =>
        /\ leftmost_cache =>
              /\ (rb_leftmost = NULL) <=> (root = NULL)
              /\ rb_leftmost # NULL => rb_leftmost \in (inTree \cap TreeNodes)
        /\ rightmost_cache =>
              /\ (rb_rightmost = NULL) <=> (root = NULL)
              /\ rb_rightmost # NULL => rb_rightmost \in (inTree \cap TreeNodes)
        /\ rb_validate_cached_tree(1, children, root, key,
                                   leftmost_cache, rightmost_cache,
                                   rb_leftmost, rb_rightmost).cache_consistency

C26_Witness ==
    /\ ~fault
    /\ root = NULL
    /\ leftmost_cache /\ rightmost_cache
    /\ Cardinality({n \in CachedNodes : Removed(n)}) >= 2

\* C27: when the buffer is full and growing it fails, rb_batch_add returns
\* -1 and leaves the batch unchanged (count, capacity, buffered nodes);
\* when it returns 0 the node is appended and count grows by exactly one.
C27_BatchAdd ==
    [][\A n \in BatchNodes :
          BatchAdd(n) =>
              IF batch_ret' = -1
              THEN batch' = batch /\ batch.count >= batch.capacity
              ELSE /\ batch_ret' = 0
                   /\ batch'.nodes = Append(batch.nodes, n)
                   /\ batch'.count = batch.count + 1
                   /\ batch'.capacity >= batch'.count]_vars

C27_Witness ==
    /\ batch_ret = -1
    /\ batch.count >= 2
    /\ batch.count = batch.capacity
    /\ Len(batch.nodes) = batch.count

\* C28: after every completed rb_insert or rb_remove, a node that has
\* exactly one child has a red child and is itself black.
C28_SingleChildRed == (~fault) => SingleChildRed(children, root)

C28_Witness ==
    /\ ~fault
    /\ \E n \in Nodes : Removed(n)
    /\ \E x \in TreeNodes :
          /\ get_child(children, x, RB_LEFT) # NULL
          /\ get_child(children, x, RB_RIGHT) = NULL
    /\ \E x \in TreeNodes :
          /\ get_child(children, x, RB_LEFT) = NULL
          /\ get_child(children, x, RB_RIGHT) # NULL

\* C29: after rb_batch_commit of n >= 1 distinct nodes into an empty tree,
\* a subsequent rb_insert or rb_remove on that tree completes without
\* reading the colour or the children of a null sibling, and leaves a tree
\* that satisfies the red-black invariants and holds exactly the expected
\* nodes.
C29_AfterBatchCommit ==
    [][(bulk /\ ~fault /\ (children' # children \/ root' # root \/ fault'))
          => /\ ~fault'
             /\ RedBlackValid(children', root', key')
             /\ Subtree(children', root', Fuel) = inTree']_vars

\* the red-red fixup of rb_insert as the list of its loop iterations: the
\* case taken and the rotations it made
RecolorStep(c, c1) == [step |-> "recolor", rot |-> c1.rot - c.rot]

RotateStep(c, c1) == [step |-> "rotate", rot |-> c1.rot - c.rot]

RECURSIVE fix_extra_red_steps(_, _)
fix_extra_red_steps(c, stacksz) ==
    IF stacksz <= 1 \/ c.fault
    THEN <<>>
    ELSE IF is_black(c.ch, c.stack[stacksz - 1]) \/ stacksz < 3
    THEN <<>>
    ELSE LET grandparent == c.stack[stacksz - 2]
             parent == c.stack[stacksz - 1]
             side == get_side(c.ch, grandparent, parent)
             aunt == get_child(c.ch, grandparent, OtherSide(side))
         IN  IF aunt # NULL /\ is_red(c.ch, aunt)
             THEN <<RecolorStep(c, RedAuntRecolor(c, grandparent, parent, aunt))>>
                  \o fix_extra_red_steps(RedAuntRecolor(c, grandparent, parent, aunt),
                                         stacksz - 2)
             ELSE <<RotateStep(c, BlackAuntRotate(c, stacksz, side))>>

\* the context rb_insert hands to fix_extra_red: node linked red under the
\* last entry of the path f
InsertLinked(ch0, k, node, f) ==
    [ch |-> set_red(set_child(ch0, f.stack[f.sz],
                              IF cmp_func(k, node, f.stack[f.sz])
                              THEN RB_LEFT ELSE RB_RIGHT,
                              node),
                    node),
     stack |-> StackPut(f.stack, f.sz + 1, node),
     fault |-> FALSE, rot |-> 0, sz |-> f.sz + 1]

StepsOf(c) == fix_extra_red_steps(c, c.sz)

insert_steps(ch, rt, k, node) ==
    IF rt = NULL
    THEN <<>>
    ELSE StepsOf(InsertLinked(ResetLinks(ch, node), k, node,
                              find_and_stack(ResetLinks(ch, node), rt, k, node)))

RECURSIVE SumRot(_)
SumRot(s) == IF s = <<>> THEN 0 ELSE Head(s).rot + SumRot(Tail(s))

\* no rotation in a recolouring step, one or two in a rotation step, and
\* nothing after a rotation step
StepsBounded(s) ==
    \A i \in 1..Len(s) :
        IF s[i].step = "recolor"
        THEN s[i].rot = 0
        ELSE i = Len(s) /\ s[i].rot \in {1, 2}

InsertRotations(r, s) ==
    ~r.fault /\ r.rot <= 2 /\ r.rot = SumRot(s) /\ StepsBounded(s)

\* C30: a single rb_insert performs at most 2 rotations, for every valid
\* tree and every inserted node; once a black-aunt rotation has been done
\* the fixup loop exits, and the red-aunt recolouring steps perform no
\* rotation.
C30_InsertRotations ==
    (~fault) =>
        \A n \in GrowNodes \ inTree :
            InsertRotations(rb_insert(children, root, key, n),
                            insert_steps(children, root, key, n))

RecolorThenTwoRotations(s) ==
    /\ Len(s) >= 2
    /\ s[1].step = "recolor"
    /\ s[Len(s)].step = "rotate"
    /\ s[Len(s)].rot = 2

C30_Witness ==
    /\ ~fault
    /\ \E n \in GrowNodes \ inTree :
          RecolorThenTwoRotations(insert_steps(children, root, key, n))

\* the number of nodes on the longest path from n down to a leaf
RECURSIVE Height(_, _, _)
Height(ch, n, fuel) ==
    IF n = NULL \/ fuel = 0
    THEN 0
    ELSE LET l == Height(ch, get_child(ch, n, RB_LEFT), fuel - 1)
             r == Height(ch, get_child(ch, n, RB_RIGHT), fuel - 1)
         IN  1 + IF l >= r THEN l ELSE r

\* depth <= 2 * log2(count + 1), in integers
WithinLogBound(depth, count) == 2 ^ depth <= (count + 1) * (count + 1)

IsLeaf(ch, n) ==
    get_child(ch, n, RB_LEFT) = NULL /\ get_child(ch, n, RB_RIGHT) = NULL

HasTwoChildren(ch, n) ==
    get_child(ch, n, RB_LEFT) # NULL /\ get_child(ch, n, RB_RIGHT) # NULL

\* the in-order predecessor rb_remove swaps a node with two children with
Predecessor(ch, n) == minmax_loop(ch, get_child(ch, n, RB_LEFT), RB_RIGHT)

\* once rb_remove has swapped it with its predecessor where needed, the
\* node to unlink still has a child
HasChildAfterSwap(ch, n) ==
    IF HasTwoChildren(ch, n)
    THEN get_child(ch, Predecessor(ch, n), RB_LEFT) # NULL
    ELSE ~IsLeaf(ch, n)

\* rb_remove of n returned r
RemoveRotations(r, n) ==
    /\ ~r.fault
    /\ r.rot <= 3
    /\ (IsLeaf(children, n) /\ is_red(children, n)) => r.rot = 0
    /\ HasChildAfterSwap(children, n) => r.rot = 0

\* C31: a single rb_remove performs at most 3 rotations (the inline relink
\* of the sibling under its inner child counts as one), for every valid
\* tree and every removed node; removing a red leaf, or a node that has a
\* child after the predecessor swap, performs none.
C31_RemoveRotations ==
    (~fault) =>
        \A n \in inTree : RemoveRotations(rb_remove(children, root, key, n), n)

C31_Witness ==
    /\ ~fault
    /\ \E n \in inTree : rb_remove(children, root, key, n).rot = 3
    /\ \E n \in inTree : IsLeaf(children, n) /\ is_red(children, n)
    /\ \E n \in inTree : HasTwoChildren(children, n) /\ HasChildAfterSwap(children, n)

\* C33: rb_cached_insert changes a cached extremum only when there was no
\* cache yet or the new node precedes the cached minimum / exceeds the
\* cached maximum; rb_cached_remove changes a cached extremum only when the
\* removed node is that cached extremum; otherwise the cached pointers are
\* unchanged.
C33_CacheFrame ==
    [][\A n \in CachedNodes :
          /\ CachedInsert(n) =>
                /\ rb_leftmost' # rb_leftmost =>
                      /\ leftmost_cache
                      /\ rb_leftmost = NULL \/ cmp_func(key, n, rb_leftmost)
                      /\ rb_leftmost' = n
                /\ rb_rightmost' # rb_rightmost =>
                      /\ rightmost_cache
                      /\ rb_rightmost = NULL \/ cmp_func(key, rb_rightmost, n)
                      /\ rb_rightmost' = n
          /\ CachedRemove(n) =>
                /\ rb_leftmost' # rb_leftmost => (leftmost_cache /\ rb_leftmost = n)
                /\ rb_rightmost' # rb_rightmost => (rightmost_cache /\ rb_rightmost = n)
      ]_vars

C33_Witness ==
    /\ ~fault
    /\ leftmost_cache /\ rightmost_cache
    /\ Cardinality(inTree) >= 3
    /\ \E n \in CachedNodes : Removed(n)
    /\ rb_leftmost # NULL /\ rb_rightmost # NULL /\ rb_leftmost # rb_rightmost
    /\ \E n \in CachedNodes \ inTree :
          cmp_func(key, rb_leftmost, n) /\ cmp_func(key, n, rb_rightmost)

\* the entries of the path stack rb_insert of node uses: the path of
\* find_and_stack and the pushed node
insert_stack_size(ch, rt, k, node) ==
    IF rt = NULL THEN 0
    ELSE find_and_stack(ResetLinks(ch, node), rt, k, node).sz + 1

\* the entries of the path stack rb_remove of node uses: the path of
\* find_and_stack and, for a node with two children, the path to the
\* predecessor
StackSizeAfterFind(ch, rt, f, node) ==
    IF node = f.stack[f.sz] /\ HasTwoChildren(ch, node)
    THEN PredecessorSwap([ch |-> ch, root |-> rt, stack |-> f.stack, sz |-> f.sz],
                         node).sz
    ELSE f.sz

remove_stack_size(ch, rt, k, node) ==
    StackSizeAfterFind(ch, rt, find_and_stack(ch, rt, k, node), node)

\* C34: after any sequence of rb_insert/rb_remove calls leaving n nodes in
\* the tree, the longest root-to-leaf path has at most 2*log2(n+1) nodes, so
\* that the path stack of find_and_stack, with the pushed new node or the
\* path to the predecessor, needs no more entries than that bound.
C34_HeightBound ==
    (~fault) =>
        /\ WithinLogBound(Height(children, root, Fuel), Cardinality(inTree))
        /\ \A n \in Nodes \ inTree :
              WithinLogBound(insert_stack_size(children, root, key, n),
                             Cardinality(inTree) + 1)
        /\ \A n \in inTree :
              WithinLogBound(remove_stack_size(children, root, key, n),
                             Cardinality(inTree))

C34_Witness ==
    /\ ~fault
    /\ Cardinality(inTree) = MaxNodes - 1
    /\ \E n \in Nodes : Removed(n)
    /\ Height(children, root, Fuel) = 3
    /\ \E n \in Nodes \ inTree : insert_stack_size(children, root, key, n) = 4
    /\ \E n \in inTree :
          HasTwoChildren(children, n) /\ remove_stack_size(children, root, key, n) = 3

\* the number of nodes below and including n
Size(ch, n) == Cardinality(Subtree(ch, n, Fuel))

\* at every node the two subtrees differ by at most one node
SizeBalanced(ch, rt) ==
    \A x \in Subtree(ch, rt, Fuel) :
        LET d == Size(ch, get_child(ch, x, RB_LEFT)) - Size(ch, get_child(ch, x, RB_RIGHT))
        IN  d \in {-1, 0, 1}

\* height = ceil(log2(count + 1)), in integers
HeightIsCeilLog(height, count) ==
    2 ^ height >= count + 1 /\ (height > 0 => 2 ^ (height - 1) < count + 1)

\* C36: the tree built by rb_batch_commit of n nodes into an empty tree is
\* balanced by median selection: at every node the sizes of the left and
\* right subtrees differ by at most one, so that the height of the tree is
\* exactly ceil(log2(n+1)).
C36_BatchBalanced ==
    (bulk /\ ~fault) =>
        /\ SizeBalanced(children, root)
        /\ HeightIsCeilLog(Height(children, root, Fuel), Cardinality(inTree))
        /\ Size(children, root) = Cardinality(inTree)

C36_Witness ==
    /\ bulk /\ ~fault
    /\ Cardinality(inTree) = MaxBatchNodes
    /\ Height(children, root, Fuel) = 3
    /\ Size(children, get_child(children, root, RB_LEFT))
          # Size(children, get_child(children, root, RB_RIGHT))

\* the values of stacksz at the iterations of fix_extra_red that find the
\* parent red and go on to read the grandparent stack[stacksz - 3]
RECURSIVE red_parent_depths(_, _)
red_parent_depths(c, stacksz) ==
    IF stacksz <= 1
    THEN {}
    ELSE IF is_black(c.ch, c.stack[stacksz - 1])
    THEN {}
    ELSE IF stacksz < 3
    THEN {stacksz}
    ELSE LET grandparent == c.stack[stacksz - 2]
             parent == c.stack[stacksz - 1]
             aunt == get_child(c.ch, grandparent,
                               OtherSide(get_side(c.ch, grandparent, parent)))
         IN  IF aunt # NULL /\ is_red(c.ch, aunt)
             THEN {stacksz}
                  \cup red_parent_depths(RedAuntRecolor(c, grandparent, parent, aunt),
                                         stacksz - 2)
             ELSE {stacksz}

DepthsOf(c) == red_parent_depths(c, c.sz)

insert_red_parent_depths(ch, rt, k, node) ==
    IF rt = NULL
    THEN {}
    ELSE DepthsOf(InsertLinked(ResetLinks(ch, node), k, node,
                               find_and_stack(ResetLinks(ch, node), rt, k, node)))

\* C38: in the insert fixup, whenever the parent of the current node is
\* found red the working stack holds at least three entries, so that the
\* grandparent read at stack[stacksz - 3] is a node of the path, for every
\* valid tree and every inserted node.
C38_GrandparentOnStack ==
    (~fault) =>
        \A n \in GrowNodes \ inTree :
            /\ ~rb_insert(children, root, key, n).fault
            /\ \A d \in insert_red_parent_depths(children, root, key, n) :
                  /\ d >= 3
                  /\ d <= insert_stack_size(children, root, key, n)

C38_Witness ==
    /\ ~fault
    /\ \E n \in GrowNodes \ inTree :
          insert_red_parent_depths(children, root, key, n) = {3, 5}
    /\ \E n \in GrowNodes \ inTree :
          insert_red_parent_depths(children, root, key, n) = {}

\* rb_remove hands n to fix_missing_black: a black leaf below the root
IsBlackLeaf(ch, rt, n) == n # rt /\ IsLeaf(ch, n) /\ is_black(ch, n)

\* no node of the tree r has n as a child
Unlinked(r, n) ==
    \A x \in Subtree(r.ch, r.root, Fuel) :
        get_child(r.ch, x, RB_LEFT) # n /\ get_child(r.ch, x, RB_RIGHT) # n

\* C39: in the delete fixup, for every valid tree and every removed black
\* leaf, the sibling of the deficit node is not NULL when its colour or its
\* children are read (before and after the red-sibling rotation), the inner
\* child is not NULL when it is recoloured, and the removed placeholder node
\* is unlinked from its parent before the fixup returns.
C39_FixupReads ==
    (~fault) =>
        \A n \in inTree :
            IsBlackLeaf(children, root, n) =>
                /\ ~rb_remove(children, root, key, n).fault
                /\ Unlinked(rb_remove(children, root, key, n), n)

C39_Witness ==
    /\ ~fault
    /\ \E n \in inTree :
          /\ IsBlackLeaf(children, root, n)
          /\ rb_remove(children, root, key, n).rot = 3
    /\ \E n \in inTree :
          /\ IsBlackLeaf(children, root, n)
          /\ rb_remove(children, root, key, n).rot = 1

\* ---- rotations: starting from any valid tree, rotate is handed the path
\* from the root down to any node below the root, any number of times
\* the path from n down to node as the stack array, <<>> when node is not
\* below n
RECURSIVE PathTo(_, _, _, _)
PathTo(ch, n, node, fuel) ==
    IF n = NULL \/ fuel = 0
    THEN <<>>
    ELSE IF n = node
    THEN <<n>>
    ELSE LET l == PathTo(ch, get_child(ch, n, RB_LEFT), node, fuel - 1)
             r == PathTo(ch, get_child(ch, n, RB_RIGHT), node, fuel - 1)
         IN  IF l # <<>> THEN <<n>> \o l
             ELSE IF r # <<>> THEN <<n>> \o r
             ELSE <<>>

\* the working context of a call that holds the path to node
PathContext(ch, rt, node) ==
    [ch |-> ch, stack |-> PathTo(ch, rt, node, Fuel), fault |-> FALSE, rot |-> 0]

\* rotate(stack, stacksz) on the path to node
RotatePath(c) == rotate(c, Len(c.stack))

\* the search trees over exactly the nodes of S, as [root, ch]: every
\* choice of the root and of the colours, the smaller nodes to its left.
\* Only subtrees without a red child under a red node and with one black
\* count are kept, as every subtree of a valid tree is one of these
RECURSIVE SearchTreesOver(_, _)
SearchTreesOver(S, D) ==
    IF S = {}
    THEN {[root |-> NULL, ch |-> [n \in D |-> <<0, 0>>]]}
    ELSE {t \in UNION {{[root |-> r,
                         ch |-> [n \in D |->
                                    IF n = r THEN <<Addr(l.root) + c, g.root>>
                                    ELSE IF n < r THEN l.ch[n] ELSE g.ch[n]]] :
                            l \in SearchTreesOver({x \in S : x < r}, D),
                            g \in SearchTreesOver({x \in S : x > r}, D),
                            c \in {RB_RED, RB_BLACK}} :
                       r \in S} :
             NoRedRed(t.ch, t.root) /\ EqualBlackCount(t.ch, t.root)}

InitRotate ==
    /\ \E S \in SUBSET RotNodes : \E t \in SearchTreesOver(S, RotNodes) :
          /\ root = t.root
          /\ children = t.ch
          /\ inTree = Subtree(t.ch, t.root, Fuel)
    /\ key = [n \in RotNodes |-> n]
    /\ RedBlackValid(children, root, key)
    /\ fault = FALSE
    /\ NoCache
    /\ NoBatch
    /\ NoIter
    /\ NoValidation /\ NoCall

\* one call of rotate on the path to n; the caller stores stack[0] as the
\* root of the tree afterwards
Rotate(n) ==
    /\ n \in inTree
    /\ n # root
    /\ children' = RotatePath(PathContext(children, root, n)).ch
    /\ root' = RotatePath(PathContext(children, root, n)).stack[1]
    /\ UNCHANGED <<key, inTree, fault, cacheVars, batchVars,
                   iterVars, validation, work, traversal>>

NextRotate == \E n \in RotNodes : Rotate(n)

SpecRotate == InitRotate /\ [][NextRotate]_vars

\* the nodes below n in order: left subtree, n, right subtree
RECURSIVE InOrder(_, _, _)
InOrder(ch, n, fuel) ==
    IF n = NULL \/ fuel = 0
    THEN <<>>
    ELSE InOrder(ch, get_child(ch, n, RB_LEFT), fuel - 1)
         \o <<n>>
         \o InOrder(ch, get_child(ch, n, RB_RIGHT), fuel - 1)

\* stack[1 .. sz] leads from its first entry down child by child
IsPath(ch, stack, sz) ==
    \A i \in 1..(sz - 1) :
        /\ stack[i + 1] # NULL
        /\ \/ get_child(ch, stack[i], RB_LEFT) = stack[i + 1]
           \/ get_child(ch, stack[i], RB_RIGHT) = stack[i + 1]

\* rotate turned the context c, with a path of sz entries, into r
RotateEffect(c, r, sz) ==
    LET parent == c.stack[sz - 1]
        child == c.stack[sz]
    IN  /\ \A x \in RotNodes : get_color(r.ch, x) = get_color(c.ch, x)
        /\ InOrder(r.ch, r.stack[1], Fuel) = InOrder(c.ch, c.stack[1], Fuel)
        /\ Subtree(r.ch, r.stack[1], Fuel) = Subtree(c.ch, c.stack[1], Fuel)
        /\ sz >= 3 =>
              /\ get_child(r.ch, c.stack[sz - 2], get_side(c.ch, c.stack[sz - 2], parent))
                    = child
              /\ get_child(r.ch, c.stack[sz - 2],
                           OtherSide(get_side(c.ch, c.stack[sz - 2], parent)))
                    = get_child(c.ch, c.stack[sz - 2],
                                OtherSide(get_side(c.ch, c.stack[sz - 2], parent)))
        /\ Len(r.stack) = sz
        /\ r.stack[sz - 1] = child
        /\ r.stack[sz] = parent
        /\ \A i \in 1..(sz - 2) : r.stack[i] = c.stack[i]
        /\ IsPath(r.ch, r.stack, sz)

RotateEffectAt(c) == RotateEffect(c, RotatePath(c), Len(c.stack))

\* C32: rotate(stack, depth) leaves the colour of every node unchanged,
\* leaves the in-order sequence and the node set of the tree unchanged,
\* relinks the grandparent (when depth >= 3) to the former child on the side
\* where the former parent was, and swaps the top two stack entries, so that
\* the stack is again a path from the root down to a node.
C32_RotateFrame ==
    \A n \in inTree \ {root} : RotateEffectAt(PathContext(children, root, n))

C32_Witness ==
    /\ ~RedBlackValid(children, root, key)
    /\ \E n \in inTree \ {root} :
          LET c == PathContext(children, root, n)
          IN  /\ Len(c.stack) = 3
              /\ HasTwoChildren(children, n)
              /\ HasTwoChildren(children, c.stack[2])
              /\ is_red(children, n) /\ is_black(children, c.stack[2])
              /\ get_child(RotatePath(c).ch, c.stack[1],
                           get_side(children, c.stack[1], c.stack[2])) = n
              /\ RotatePath(c).stack = <<c.stack[1], n, c.stack[2]>>

\* ---- the fixup loops one iteration at a time: a call of rb_insert or
\* rb_remove runs up to its fixup loop, each iteration of the loop is a step
\* on the node memory, and the return stores stack[0] as the root
\* fix_extra_red, one iteration of while (stacksz > 1): the context, the
\* stacksz it leaves, and whether it returned
fix_extra_red_iteration(c, stacksz) ==
    IF is_black(c.ch, c.stack[stacksz - 1])
    THEN [c |-> c, sz |-> stacksz, done |-> TRUE]
    ELSE IF stacksz < 3
    THEN [c |-> Faulted(c), sz |-> stacksz, done |-> TRUE]
    ELSE LET grandparent == c.stack[stacksz - 2]
             parent == c.stack[stacksz - 1]
             side == get_side(c.ch, grandparent, parent)
             aunt == get_child(c.ch, grandparent, OtherSide(side))
         IN  IF aunt # NULL /\ is_red(c.ch, aunt)
             THEN [c |-> RedAuntRecolor(c, grandparent, parent, aunt),
                   sz |-> stacksz - 2, done |-> FALSE]
             ELSE [c |-> BlackAuntRotate(c, stacksz, side), sz |-> stacksz, done |-> TRUE]

\* fix_extra_red once the loop is left without a return: the root is
\* coloured black
ExtraRedExit(it) ==
    IF ~it.done /\ it.sz <= 1
    THEN [it EXCEPT !.c.ch = set_black(it.c.ch, it.c.stack[1]), !.done = TRUE]
    ELSE it

\* fix_missing_black, the rest of one iteration from a sibling that is black:
\* only a black sibling with black children under a black parent continues
black_sibling_iteration(c, stacksz, n, parent, n_side, sib, null_node) ==
    IF /\ sib # NULL
       /\ LET c0 == get_child(c.ch, sib, RB_LEFT)
              c1 == get_child(c.ch, sib, RB_RIGHT)
          IN  (c0 = NULL \/ is_black(c.ch, c0)) /\ (c1 = NULL \/ is_black(c.ch, c1))
       /\ is_black(c.ch, parent)
    THEN [c |-> BlackSiblingRecolor(c, n, parent, n_side, sib, null_node),
          sz |-> stacksz - 1, done |-> FALSE]
    ELSE [c |-> BlackSibling(c, stacksz, n, parent, n_side, sib, null_node),
          sz |-> stacksz, done |-> TRUE]

\* the iteration goes on with the longer stack the red-sibling step left
AfterRedSiblingIteration(c, stacksz, n, n_side, null_node) ==
    black_sibling_iteration(c, stacksz, n, c.stack[stacksz - 1], n_side,
                            get_child(c.ch, c.stack[stacksz - 1], OtherSide(n_side)),
                            null_node)

SiblingIteration(c, stacksz, n, parent, n_side, sib, null_node) ==
    IF sib # NULL /\ ~is_black(c.ch, sib)
    THEN CHOOSE it \in {AfterRedSiblingIteration(c1, stacksz + 1, n, n_side, null_node) :
                           c1 \in {RedSibling(c, stacksz, n, parent, sib)}} : TRUE
    ELSE black_sibling_iteration(c, stacksz, n, parent, n_side, sib, null_node)

SideIteration(c, stacksz, n, parent, n_side, null_node) ==
    SiblingIteration(c, stacksz, n, parent, n_side,
                     get_child(c.ch, parent, OtherSide(n_side)), null_node)

\* the iteration that keeps stacksz where a black parent passes the
\* deficit up
fix_missing_black_iteration_KeepsDepth(c, stacksz, null_node) ==
    LET it == SideIteration(c, stacksz, c.stack[stacksz], c.stack[stacksz - 1],
                            get_side(c.ch, c.stack[stacksz - 1], c.stack[stacksz]),
                            null_node)
    IN  [it EXCEPT !.sz = IF it.done THEN @ ELSE stacksz]

\* fix_missing_black, one iteration of while (stacksz > 1): the context, the
\* stacksz it leaves, and whether it returned
fix_missing_black_iteration(c, stacksz, null_node) ==
    SideIteration(c, stacksz, c.stack[stacksz], c.stack[stacksz - 1],
                  get_side(c.ch, c.stack[stacksz - 1], c.stack[stacksz]),
                  null_node)

\* the loop is left when stacksz has come down to 1
LoopExit(it) == [it EXCEPT !.done = @ \/ it.sz <= 1]

\* the node memory of the call under way, as the context of its fixup
WorkContext == [ch |-> children, stack |-> work.stack, fault |-> FALSE, rot |-> 0]

\* the iteration it has been made: the call goes on with the next
\* iteration, or returns to its caller, which stores stack[0] as the root
Progress(it) ==
    /\ children' = it.c.ch
    /\ fault' = it.c.fault
    /\ root' = IF it.done THEN it.c.stack[1] ELSE root
    /\ work' = IF it.done
               THEN [IdleWork EXCEPT !.calls = work.calls]
               ELSE [work EXCEPT !.stack = it.c.stack, !.sz = it.sz]
    /\ UNCHANGED <<key, inTree, cacheVars, batchVars, iterVars, validation, traversal>>

\* what rb_insert / rb_remove computes as a whole, kept to compare with
Expect(r) == [ch |-> r.ch, root |-> r.root, fault |-> r.fault]

\* the call returns without a fixup loop
CallReturns(r) ==
    /\ children' = r.ch
    /\ root' = r.root
    /\ fault' = r.fault
    /\ work' = [IdleWork EXCEPT !.calls = work.calls + 1]

\* rb_insert up to fix_extra_red: the node is linked red under the last
\* entry of the path l.stack
InsertFixup(l, r) ==
    /\ children' = l.ch
    /\ root' = root
    /\ fault' = fault
    /\ work' = [pc |-> "fix_extra_red", stack |-> l.stack, sz |-> l.sz,
                null_node |-> NULL, calls |-> work.calls + 1, expect |-> Expect(r)]

CallInsert(n) ==
    /\ ~fault
    /\ work.pc = "idle"
    /\ work.calls < MaxCalls
    /\ n \notin inTree
    /\ IF root = NULL
       THEN CallReturns(rb_insert(children, root, key, n))
       ELSE InsertFixup(InsertLinked(ResetLinks(children, n), key, n,
                                     find_and_stack(ResetLinks(children, n), root, key, n)),
                        rb_insert(children, root, key, n))
    /\ inTree' = inTree \cup {n}
    /\ UNCHANGED <<key, cacheVars, batchVars, iterVars, validation, traversal>>

FixExtraRedStep ==
    /\ work.pc = "fix_extra_red"
    /\ \E it \in {ExtraRedExit(fix_extra_red_iteration(WorkContext, work.sz))} :
          Progress(it)

\* rb_remove up to the splice: the tree after the swap with the predecessor,
\* as [ch, root, stack, sz]
RemoveSwapped(ch, rt, f, node) ==
    IF HasTwoChildren(ch, node)
    THEN PredecessorSwap([ch |-> ch, root |-> rt, stack |-> f.stack, sz |-> f.sz], node)
    ELSE [ch |-> ch, root |-> rt, stack |-> f.stack, sz |-> f.sz]

\* rb_remove hands the node to fix_missing_black: a black node without
\* children below the root
NeedsFixup(t, node) == t.sz >= 2 /\ IsLeaf(t.ch, node) /\ is_black(t.ch, node)

RemoveFixup(t, node, r) ==
    /\ children' = t.ch
    /\ root' = t.root
    /\ fault' = fault
    /\ work' = [pc |-> "fix_missing_black", stack |-> t.stack, sz |-> t.sz,
                null_node |-> node, calls |-> work.calls + 1, expect |-> Expect(r)]

RemoveFrom(f, node, r) ==
    IF f.fault \/ node # f.stack[f.sz]
    THEN CallReturns(r)
    ELSE IF NeedsFixup(RemoveSwapped(children, root, f, node), node)
    THEN RemoveFixup(RemoveSwapped(children, root, f, node), node, r)
    ELSE CallReturns(r)

CallRemove(n) ==
    /\ ~fault
    /\ work.pc = "idle"
    /\ work.calls < MaxCalls
    /\ RemoveFrom(find_and_stack(children, root, key, n), n,
                  rb_remove(children, root, key, n))
    /\ inTree' = IF rb_remove(children, root, key, n).found THEN inTree \ {n} ELSE inTree
    /\ UNCHANGED <<key, cacheVars, batchVars, iterVars, validation, traversal>>

FixMissingBlackStep ==
    /\ work.pc = "fix_missing_black"
    /\ \E it \in {LoopExit(fix_missing_black_iteration(WorkContext, work.sz,
                                                       work.null_node))} :
          Progress(it)

\* any valid tree over some of the nodes, and no call made yet
InitSteps ==
    /\ \E S \in SUBSET StepNodes : \E t \in SearchTreesOver(S, StepNodes) :
          /\ root = t.root
          /\ children = t.ch
          /\ inTree = S
    /\ key = [n \in StepNodes |-> n]
    /\ RedBlackValid(children, root, key)
    /\ fault = FALSE
    /\ NoCache
    /\ NoBatch
    /\ NoIter
    /\ NoValidation /\ NoCall

NextSteps ==
    \/ \E n \in StepNodes : CallInsert(n)
    \/ \E n \in StepNodes : CallRemove(n)
    \/ FixExtraRedStep
    \/ FixMissingBlackStep

\* a call that has entered its fixup loop keeps running: nothing in the
\* loops waits for anything
SpecSteps ==
    /\ InitSteps
    /\ [][NextSteps]_vars
    /\ WF_vars(FixExtraRedStep)
    /\ WF_vars(FixMissingBlackStep)

\* the pending iteration of the insert fixup returns or takes two entries
\* off the stack
InsertIterationShrinks ==
    work.pc = "fix_extra_red" =>
        LET it == fix_extra_red_iteration(WorkContext, work.sz)
        IN  /\ work.sz > 1
            /\ it.done \/ it.sz = work.sz - 2

\* the pending iteration of the delete fixup returns, with a stack that is
\* at most one entry longer, or takes one entry off the stack
RemoveIterationShrinks ==
    work.pc = "fix_missing_black" =>
        LET it == fix_missing_black_iteration(WorkContext, work.sz, work.null_node)
        IN  /\ work.sz > 1
            /\ \/ it.done /\ it.sz \in {work.sz, work.sz + 1}
               \/ ~it.done /\ it.sz = work.sz - 1

\* a call that returns leaves the tree rb_insert / rb_remove computes
ReturnsExpected ==
    (work.pc # "idle" /\ work'.pc = "idle") =>
        /\ children' = work.expect.ch
        /\ root' = work.expect.root
        /\ fault' = work.expect.fault

\* a step of a fixup loop returns or leaves a shorter stack
StepShrinks ==
    /\ FixExtraRedStep => (work'.pc = "idle" \/ work'.sz = work.sz - 2)
    /\ FixMissingBlackStep => (work'.pc = "idle" \/ work'.sz = work.sz - 1)

\* C35: every rb_insert and rb_remove call on a valid tree terminates: each
\* iteration of the insert fixup loop returns or shortens the working stack
\* by two, each iteration of the delete fixup loop returns or shortens it by
\* one, and the red-sibling step lengthens it at most once per call.
C35_FixupTerminates ==
    /\ [](InsertIterationShrinks /\ RemoveIterationShrinks)
    /\ [][StepShrinks /\ ReturnsExpected]_vars
    /\ (work.pc # "idle") ~> (work.pc = "idle")

C35_Witness ==
    /\ ~fault
    /\ work.pc = "fix_missing_black"
    /\ work.sz = 2
    /\ Len(work.stack) = 3
    /\ ~fix_missing_black_iteration(WorkContext, work.sz, work.null_node).done

\* ---- traversal across mutation: rb_insert and rb_remove may run between
\* two calls of __rb_foreach_next; traversal[i] records what happened to the
\* tree since the traversal started
\* next has returned a node of traversal i and has not returned NULL yet
Active(i) == outs[i] # <<>> /\ outs[i][Len(outs[i])] # NULL

\* a call of rb_insert or rb_remove ran: every traversal under way is marked,
\* and gone are the nodes that did not stay in the tree
Mutation(gone) ==
    traversal' = [i \in Iters |->
                     IF Active(i)
                     THEN [traversal[i] EXCEPT !.mutated = TRUE,
                                               !.throughout = @ \ gone]
                     ELSE traversal[i]]

MutInsert(n) ==
    /\ ~fault
    /\ n \notin inTree
    /\ \E r \in {rb_insert(children, root, key, n)} :
          /\ children' = r.ch
          /\ root' = r.root
          /\ fault' = r.fault
    /\ inTree' = inTree \cup {n}
    /\ Mutation({})
    /\ UNCHANGED <<key, cacheVars, batchVars, iterVars, validation, work>>

MutRemove(n) ==
    /\ ~fault
    /\ n \in inTree
    /\ \E r \in {rb_remove(children, root, key, n)} :
          /\ children' = r.ch
          /\ root' = r.root
          /\ fault' = r.fault
    /\ inTree' = inTree \ {n}
    /\ Mutation({n})
    /\ UNCHANGED <<key, cacheVars, batchVars, iterVars, validation, work>>

\* next returned ret: the first call of a traversal starts the record, and a
\* node that is not in the tree when it is returned is noted
Returned(i, ret) ==
    traversal' = [traversal EXCEPT ![i] =
                     [mutated |-> IF outs[i] = <<>> THEN FALSE ELSE @.mutated,
                      throughout |-> IF outs[i] = <<>> THEN inTree ELSE @.throughout,
                      stale |-> \/ outs[i] # <<>> /\ @.stale
                                \/ ret # NULL /\ ret \notin inTree]]

\* one call of __rb_foreach_next of a traversal that has not ended
MutNext(i) ==
    /\ ~fault
    /\ outs[i] = <<>> \/ Active(i)
    /\ Len(outs[i]) <= MaxMutNodes + 1
    /\ \E r \in {rb_foreach_next(children, root, iters[i])} :
          /\ iters' = [iters EXCEPT ![i] = r.f]
          /\ outs' = [outs EXCEPT ![i] = Append(@, r.ret)]
          /\ Returned(i, r.ret)
    /\ UNCHANGED <<treeVars, cacheVars, batchVars, validation, work>>

\* the loop is left and RB_FOREACH constructs a fresh iterator state
MutRestart(i) ==
    /\ ~fault
    /\ outs[i] # <<>>
    /\ iters' = [iters EXCEPT ![i] = FOREACH_INIT]
    /\ outs' = [outs EXCEPT ![i] = <<>>]
    /\ traversal' = [traversal EXCEPT ![i] = NoMutation]
    /\ UNCHANGED <<treeVars, cacheVars, batchVars, validation, work>>

NextIterMut ==
    \/ \E n \in MutNodes : MutInsert(n)
    \/ \E n \in MutNodes : MutRemove(n)
    \/ MutNext(1)
    \/ MutRestart(1)

SpecIterMut == Init /\ [][NextIterMut]_vars

\* traversal i returned a node that was not in the tree at that time
ReturnsStale(i) == traversal[i].stale

\* traversal i returned twice a node that was in the tree all the time
Repeats(i) ==
    \E a, b \in 1..Len(outs[i]) :
        a < b /\ outs[i][a] \in traversal[i].throughout /\ outs[i][a] = outs[i][b]

\* traversal i has ended without a node that was in the tree all the time
Omits(i) ==
    /\ outs[i] # <<>>
    /\ outs[i][Len(outs[i])] = NULL
    /\ \E x \in traversal[i].throughout : \A a \in 1..Len(outs[i]) : outs[i][a] # x

\* C37: iteration is not safe across mutation: there is an interleaving in
\* which an rb_remove or rb_insert runs between two next() calls of an
\* active iterator and the traversal then returns a node that is no longer
\* in the tree, or omits or repeats a node that was in the tree throughout.
\* A traversal goes wrong in one of these ways only when such a call ran,
\* and each of the three ways is reached.
C37_MutationBreaksTraversal ==
    \A i \in Iters :
        (ReturnsStale(i) \/ Repeats(i) \/ Omits(i)) => traversal[i].mutated

C37_Witness ==
    /\ ~fault
    /\ traversal[1].mutated
    /\ ReturnsStale(1)
    /\ Omits(1)
    /\ inTree # {}
====
